---- MODULE Spec2Model ----
(***************************************************************************)
(* A model of parts of the trufflehog scanning pipeline:                   *)
(*                                                                         *)
(*   SpecDetectors  the FromData loops of the twilio, grafanaserviceaccount,*)
(*                  databrickstoken, ftp, zipapi, couchbase and docusign   *)
(*                  detectors,                                             *)
(*                  one candidate per step, the outcome of the remote      *)
(*                  verification call chosen by the environment;           *)
(*   SpecGit        Git.gitChunk cutting one diff into chunks, with the    *)
(*                  buffer of its bufio.Scanner;                           *)
(*   SpecBase64     the Base64 decoder's FromChunk on one chunk;           *)
(*   SpecWriter     two BufferedFileWriters sharing the buffer pool, each  *)
(*                  written, closed, read and its reader closed;           *)
(*   SpecShutdown   one BufferedFileWriter while run's signal goroutine    *)
(*                  cancels the scan, cleans up and exits the process;     *)
(*   SpecChannels   Git.ScanCommits, docker's Chunks and handleChunks      *)
(*                  sending on chunksChan while the context is cancelled   *)
(*                  and the consumer stops;                                *)
(*   SpecSources    the unit loops of s3's scanBuckets, of scanRepos and   *)
(*                  of docker's Chunks, with failing units and a cancel;   *)
(*   SpecPage       s3's pageChunker, its jobs under a concurrency limit   *)
(*                  and the error count they share;                        *)
(*   SpecRpm        the rpm handler over the files of one payload;         *)
(*   SpecRun        run: the main goroutine up to its exit code, the       *)
(*                  signal goroutine and the seconds after the signal;     *)
(*   SpecConfig     run's flags up to the engine and the source manager;   *)
(*   SpecEngine     the engine's verification overlap, shouldVerifyChunk   *)
(*                  and likelyDuplicate on the cases of its tests;         *)
(*   SpecHandleFile HandleFile and handleChunks with a handler, a reporter *)
(*                  and a context that may be cancelled;                   *)
(*   SpecDataChan   the goroutine of the default and of the rpm handler    *)
(*                  and the channel HandleFile returns;                    *)
(*   SpecProgress   gitlab's scanRepos setting the source's Progress from  *)
(*                  its jobs while a reader gets the progress;             *)
(*   SpecResume     s3's getBucketsToScan and scanBuckets starting from a  *)
(*                  resume point;                                          *)
(*   SpecLog        gitparse.RepoPath parsing the output of git log and    *)
(*                  the loop of Git.ScanCommits over its commits.          *)
(*                                                                         *)
(* Every specification constrains all variables; the variables of the      *)
(* parts a specification does not exercise keep their initial value.       *)
(***************************************************************************)
EXTENDS Integers, Sequences, FiniteSets, TLC

VARIABLES
    d_det,      \* detectors: the detector whose FromData is running
    d_verify,   \* detectors: the verify argument of FromData
    d_left,     \* detectors: candidates (regex match combinations) still to visit
    d_results,  \* detectors: the results slice built so far
    d_log,      \* detectors: history, one entry per visited candidate
    d_state,    \* detectors: "running", "returned", "fatal" (log.Fatal -> os.Exit) or "panic"
    g_pc,       \* git: "start", "gitChunk" or "done"
    g_src,      \* git: the unread bytes of diff.Content
    g_sc,       \* git: the bufio.Scanner of gitChunk (its byte arrays, start, end, err)
    g_new,      \* git: newChunkBuffer
    g_chan,     \* git: the chunks sent on chunksChan, in order
    g_diff,     \* git: history, diff.Content when ScanCommits took the diff
    b_pc,       \* base64: "call" or "returned"
    b_data,     \* base64: the Data field of the chunk handed to FromChunk
    b_before,   \* base64: history, that Data when FromChunk was called
    b_ret,      \* base64: what FromChunk returned
    w_T,        \* writer: the threshold given to New (WithThreshold)
    w_active,   \* writer: the BufferedFileWriters the callers have created
    w_st,       \* writer: per writer, size, buf, file and the caller's position
    w_arrays,   \* writer: the backing arrays of the bytes.Buffers
    w_pool,     \* writer: bufferPool, how often it holds the pointer &w.buf
    w_fs,       \* writer: the temporary file of each writer on disk
    w_rd,       \* writer: the reader ReadCloser returned for each writer
    w_hist,     \* writer: history: bytes written, use of a buffer after its Put
    s_pc,       \* process: the signal goroutine of run, and the process exit
    s_prior,    \* process: temporary artifacts that earlier runs left on disk
    s_clock,    \* process: whole seconds that have passed since the signal arrived
    s_sleep,    \* process: s_clock when the signal goroutine entered time.Sleep
    s_main,     \* process: the main goroutine of run, the exit code and who exited
    s_cfg,      \* process: the --fail flag and the parsed --results filter
    s_eng,      \* process: the engine's findings, detected and emitted
    c_pc,       \* channels: where each producer of chunksChan stands
    c_left,     \* channels: the units each producer has yet to turn into chunks
    c_chan,     \* channels: the number of chunks buffered in chunksChan
    c_ctx,      \* channels: ctx is cancelled
    c_reader,   \* channels: the consumer of chunksChan, "reading" or "stopped"
    c_recv,     \* channels: history, the number of chunks the consumer received
    u_src,      \* sources: the source whose scan function runs
    u_units,    \* sources: its units (buckets, repos, images), each with its outcome
    u_i,        \* sources: the index of the next unit
    u_ctx,      \* sources: ctx is cancelled
    u_pc,       \* sources: "running" or "returned"
    u_ret,      \* sources: the error the scan function returned
    u_log,      \* sources: history, what became of each unit visited
    u_errs,     \* sources: the errors recorded (scanErrs, the error log)
    p_N,        \* pageChunker: the limit of s.jobPool (the concurrency)
    p_objs,     \* pageChunker: the objects of the page, each with its GetObject outcome
    p_next,     \* pageChunker: the index of the next object of the loop
    p_jobs,     \* pageChunker: the job of each object: where it stands, its local nErr
    p_errorCount, \* pageChunker: state.errorCount for the prefix of the objects
    p_emitted,  \* pageChunker: the objects handed to handlers.HandleFile
    p_pc,       \* pageChunker: "running" or "returned"
    r_pc,       \* rpm: the goroutine of HandleFile: "open", "files", "finish", "closed"
    r_open,     \* rpm: what ReadRpm and PayloadReaderExtended end with
    r_files,    \* rpm: the files of the payload, each with what processing it ends with
    r_i,        \* rpm: the index of the next file
    r_ctx,      \* rpm: ctx is cancelled
    r_err,      \* rpm: the error processRPMFiles returned
    r_out,      \* rpm: what was sent on dataOrErrChan, in order
    r_metrics,  \* rpm: h.metrics (errors, files processed)
    k_pc,       \* config: where run stands: "flags", "pinned", "conf"
    k_flags,    \* config: the command, *concurrency, --since-commit, the compare flag
    k_given,    \* config: history, the --concurrency value the user gave
    k_engConf,  \* config: engine.Config.Concurrency, 0 before it is built
    k_mgr,      \* config: the source manager's concurrent sources and units
    e_part,     \* engine: the part exercised: "overlap", "verify", "duplicate" or "none"
    o_test,     \* engine, overlap: the test whose detectors scan the chunk
    o_done,     \* engine, overlap: the results <<detector, raw>> processed so far
    o_verified, \* engine, overlap: those of them that were verified
    o_pc,       \* engine, overlap: "scanning", "finished" or "asserted"
    o_pass,     \* engine, overlap: the test's assertion on VerifiedSecretsFound held
    v_in,       \* engine, shouldVerifyChunk: the arguments of the call, the test case
    v_want,     \* engine, shouldVerifyChunk: what the test case wants
    v_got,      \* engine, shouldVerifyChunk: what the call returned
    v_pc,       \* engine, shouldVerifyChunk: "call" or "returned"
    q_in,       \* engine, likelyDuplicate: the candidate, the stored keys, the test case
    q_want,     \* engine, likelyDuplicate: what the test case expects
    q_got,      \* engine, likelyDuplicate: what the calls returned
    q_pc,       \* engine, likelyDuplicate: "call" or "returned"
    h_in,       \* HandleFile: ctx cancelled at the call, the kind of file, its items
    h_ctx,      \* HandleFile: ctx is cancelled
    h_left,     \* HandleFile: the items the handler's goroutine has yet to send
    h_chan,     \* HandleFile: handlerChan: "empty", "offer" (a sender waits) or "closed"
    h_out,      \* HandleFile: the chunks buffered in chunksChan
    h_pc,       \* HandleFile: "start", "select", "send" or "returned"
    h_ret,      \* HandleFile: what it returned: "none", "true" or "false"
    h_sent,     \* HandleFile: history, the chunks it sent
    f_h,        \* handler channel: the handler, "default" or "rpm"
    f_skip,     \* handler channel: feature.ForceSkipArchives is set
    f_pc,       \* handler channel: where the handler's goroutine stands
    f_left,     \* handler channel: the items the file has yet to yield
    f_buf,      \* handler channel: the items buffered in the returned channel
    f_ctx,      \* handler channel: ctx is cancelled
    f_reader,   \* handler channel: the reader of the channel, "reading" or "stopped"
    f_hist,     \* handler channel: history: items sent, received, calls of close
    m_n,        \* progress: len(s.repos)
    m_ctx,      \* progress: ctx is cancelled
    m_next,     \* progress: the index of the next repo of scanRepos' loop
    m_job,      \* progress: where the job of each repo stands
    m_rmut,     \* progress: the holders of s.resumeInfoMutex
    m_resume,   \* progress: s.resumeInfoSlice, the repos in it
    m_progress, \* progress: the fields of the source's Progress
    m_w,        \* progress: the SetProgressComplete call holding p.mut
    m_calls,    \* progress: history, what each SetProgressComplete call sets
    m_rd,       \* progress: the reader: where it stands, the fields it read
    m_pc,       \* progress: scanRepos: "running", "final" or "returned"
    a_conn,     \* s3 resume: the buckets of the connection, as configured or listed
    a_resume,   \* s3 resume: the resume point: CurrentBucket, StartAfter
    a_buckets,  \* s3 resume: bucketsToScan
    a_i,        \* s3 resume: the index of the next bucket of the loop (from 1)
    a_ctx,      \* s3 resume: ctx is cancelled
    a_pc,       \* s3 resume: "start", "scanBuckets", "loop" or "returned"
    a_log,      \* s3 resume: history, the buckets visited and the StartAfter of each
    a_ret,      \* s3 resume: what scanBuckets returned
    n_lines,    \* git log: the lines of the output of git log
    n_opts,     \* git log: scanOptions: MaxDepth, BaseHash
    n_pos,      \* git log: the index of the next line the parser reads
    n_cur,      \* git log: currentCommit, NilCommit or one commit
    n_diff,     \* git log: currentDiff, NilDiff or the length of its content
    n_pc,       \* git log: the parser: "read", "send", "sendLast", "close" or "done"
    n_closed,   \* git log: commitChan is closed
    n_cons,     \* git log: ScanCommits: "range" or "returned"
    n_depth,    \* git log: ScanCommits: depth
    n_reachedBase, \* git log: ScanCommits: reachedBase
    n_recv,     \* git log: history, the commits received from commitChan
    n_scanned,  \* git log: history, the hashes of the commits whose diffs were scanned
    n_spins     \* git log: the iterations of the empty loop of the first goroutine

d_vars == <<d_det, d_verify, d_left, d_results, d_log, d_state>>

g_vars == <<g_pc, g_src, g_sc, g_new, g_chan, g_diff>>

b_vars == <<b_pc, b_data, b_before, b_ret>>

w_vars == <<w_T, w_active, w_st, w_arrays, w_pool, w_fs, w_rd, w_hist>>

s_vars == <<s_pc, s_prior, s_clock, s_sleep, s_main, s_cfg, s_eng>>

c_vars == <<c_pc, c_left, c_chan, c_ctx, c_reader, c_recv>>

u_vars == <<u_src, u_units, u_i, u_ctx, u_pc, u_ret, u_log, u_errs>>

\* The variables of the parts added after the first five.
p_vars == <<p_N, p_objs, p_next, p_jobs, p_errorCount, p_emitted, p_pc>>

r_vars == <<r_pc, r_open, r_files, r_i, r_ctx, r_err, r_out, r_metrics>>

x_vars == <<c_vars, u_vars, p_vars, r_vars>>

k_vars == <<k_pc, k_flags, k_given, k_engConf, k_mgr>>

o_vars == <<o_test, o_done, o_verified, o_pc, o_pass>>

v_vars == <<v_in, v_want, v_got, v_pc>>

q_vars == <<q_in, q_want, q_got, q_pc>>

e_vars == <<e_part, o_vars, v_vars, q_vars>>

\* The variables of the parts added last.
h_vars == <<h_in, h_ctx, h_left, h_chan, h_out, h_pc, h_ret, h_sent>>

f_vars == <<f_h, f_skip, f_pc, f_left, f_buf, f_ctx, f_reader, f_hist>>

m_vars == <<m_n, m_ctx, m_next, m_job, m_rmut, m_resume, m_progress, m_w,
            m_calls, m_rd, m_pc>>

a_vars == <<a_conn, a_resume, a_buckets, a_i, a_ctx, a_pc, a_log, a_ret>>

n_vars == <<n_lines, n_opts, n_pos, n_cur, n_diff, n_pc, n_closed, n_cons, n_depth, n_reachedBase, n_recv, n_scanned, n_spins>>

y_vars == <<k_vars, e_vars, h_vars, f_vars, m_vars, a_vars, n_vars>>

vars == <<d_vars, g_vars, b_vars, w_vars, s_vars, x_vars, y_vars>>

d_frame == UNCHANGED <<g_vars, b_vars, w_vars, s_vars, x_vars, y_vars>>

g_frame == UNCHANGED <<d_vars, b_vars, w_vars, s_vars, x_vars, y_vars>>

b_frame == UNCHANGED <<d_vars, g_vars, w_vars, s_vars, x_vars, y_vars>>

w_frame == UNCHANGED <<d_vars, g_vars, b_vars, x_vars, y_vars>>

c_frame == UNCHANGED <<d_vars, g_vars, b_vars, w_vars, s_vars, u_vars, p_vars, r_vars, y_vars>>

u_frame == UNCHANGED <<d_vars, g_vars, b_vars, w_vars, s_vars, c_vars, p_vars, r_vars, y_vars>>

p_frame == UNCHANGED <<d_vars, g_vars, b_vars, w_vars, s_vars, c_vars, u_vars, r_vars, y_vars>>

r_frame == UNCHANGED <<d_vars, g_vars, b_vars, w_vars, s_vars, c_vars, u_vars, p_vars, y_vars>>

\* The parts before the last ones.
old_vars == <<d_vars, g_vars, b_vars, w_vars, s_vars, x_vars>>

k_frame == UNCHANGED <<old_vars, e_vars, h_vars, f_vars, m_vars, a_vars, n_vars>>

e_frame == UNCHANGED <<old_vars, k_vars, h_vars, f_vars, m_vars, a_vars, n_vars>>

h_frame == UNCHANGED <<old_vars, k_vars, e_vars, f_vars, m_vars, a_vars, n_vars>>

f_frame == UNCHANGED <<old_vars, k_vars, e_vars, h_vars, m_vars, a_vars, n_vars>>

m_frame == UNCHANGED <<old_vars, k_vars, e_vars, h_vars, f_vars, a_vars, n_vars>>

a_frame == UNCHANGED <<old_vars, k_vars, e_vars, h_vars, f_vars, m_vars, n_vars>>

n_frame == UNCHANGED <<old_vars, k_vars, e_vars, h_vars, f_vars, m_vars, a_vars>>

----------------------------------------------------------------------------
(* Detectors                                                               *)

\* The largest number of regex match combinations one FromData call visits.
MaxCandidates == 3

\* HTTP status codes the remote endpoint may answer with.
StatusCodes == {200, 204, 301, 401, 403, 404, 429, 500, 503}

\* What client.Do(req) can end with: an error (network failure, or the
\* client's timeout) and no response, or a response with a status code.
HttpOutcomes ==
    {[kind |-> "neterr", code |-> 0], [kind |-> "timeout", code |-> 0]}
        \cup {[kind |-> "http", code |-> c] : c \in StatusCodes}

\* verifyFTP: nil (login accepted), a textproto.Error (an FTP reply such as
\* 530 not logged in) or any other error (dial failure, timeout).
FtpOutcomes ==
    {[kind |-> "ftpok", code |-> 0], [kind |-> "ftpreply", code |-> 530],
     [kind |-> "neterr", code |-> 0], [kind |-> "timeout", code |-> 0]}

\* couchbase: ApplyProfile fails; gocb.Connect fails; cluster.Ping fails; the
\* ping report holds an endpoint in state ok, or none.
CouchbaseOutcomes ==
    {[kind |-> "profileerr", code |-> 0], [kind |-> "connecterr", code |-> 0],
     [kind |-> "pingerr", code |-> 0], [kind |-> "pingok", code |-> 0],
     [kind |-> "pingnotok", code |-> 0]}

NoOutcome == [kind |-> "notverified", code |-> 0]

Is2xx(code) == code >= 200 /\ code < 300

\* detectors.Result, reduced to the fields the verification decides.
NewResult(det) == [detector |-> det, verified |-> FALSE, verificationError |-> "none"]

\* A faulty variant of twilio_candidate: the verification error is recorded for every
\* response, before the status is looked at.
twilio_candidate_errFirst(verify, out) ==
    LET s1 == NewResult("twilio") IN
    IF ~verify THEN {s1}
    ELSE IF out.kind = "http"
         THEN IF Is2xx(out.code)
              THEN {[s1 EXCEPT !.verified = TRUE, !.verificationError = "unexpected status"]}
              ELSE IF out.code = 401 \/ out.code = 403
                   THEN {s1}
                   ELSE {[s1 EXCEPT !.verificationError = "unexpected status"]}
         ELSE {[s1 EXCEPT !.verificationError = out.kind]}

\* twilio Scanner.FromData, the body of the sid x key loop: the set of results
\* appended for one candidate (empty when the candidate is skipped).
\* http.NewRequestWithContext fails only for a malformed method or URL or a
\* nil context; the URL is a constant, so that branch is never taken.
twilio_candidate(verify, out) ==
    LET s1 == NewResult("twilio") IN
    IF ~verify THEN {s1}
    ELSE IF out.kind = "http"
         THEN IF Is2xx(out.code)
              THEN {[s1 EXCEPT !.verified = TRUE]}
              ELSE IF out.code = 401 \/ out.code = 403
                   THEN {s1}
                   ELSE {[s1 EXCEPT !.verificationError = "unexpected status"]}
         ELSE {[s1 EXCEPT !.verificationError = out.kind]}

\* grafanaserviceaccount Scanner.FromData, the body of the key x domain loop.
\* The URL is "https://" + a host matched by domainPat, which always parses.
grafanaserviceaccount_candidate(verify, out) ==
    LET s1 == NewResult("grafanaserviceaccount") IN
    IF ~verify THEN {s1}
    ELSE IF out.kind = "http"
         THEN IF Is2xx(out.code)
              THEN {[s1 EXCEPT !.verified = TRUE]}
              ELSE IF out.code = 401
                   THEN {s1}
                   ELSE {[s1 EXCEPT !.verificationError = "unexpected status"]}
         ELSE {[s1 EXCEPT !.verificationError = out.kind]}

\* databrickstoken Scanner.FromData, the body of the key x domain loop.
databrickstoken_candidate(verify, out) ==
    LET s1 == NewResult("databrickstoken") IN
    IF ~verify THEN {s1}
    ELSE IF out.kind = "http"
         THEN IF Is2xx(out.code)
              THEN {[s1 EXCEPT !.verified = TRUE]}
              ELSE IF out.code = 403
                   THEN {s1}
                   ELSE {[s1 EXCEPT !.verificationError = "unexpected status"]}
         ELSE {[s1 EXCEPT !.verificationError = out.kind]}

\* zipapi Scanner.FromData, the body of the key x email x password loop.
zipapi_candidate(verify, out) ==
    LET s1 == NewResult("zipapi") IN
    IF ~verify THEN {s1}
    ELSE IF out.kind = "http" /\ Is2xx(out.code)
         THEN {[s1 EXCEPT !.verified = TRUE]}
         ELSE {s1}

\* ftp isErrDeterminate: errors.As(e, *textproto.Error); false for nil.
isErrDeterminate(out) == out.kind = "ftpreply"

\* ftp Scanner.FromData, the body of the match loop after the URL checks.
\* dollar: the password starts with "$"; falsePositive: IsKnownFalsePositive.
ftp_candidate(verify, out, dollar, falsePositive) ==
    LET s0 == NewResult("ftp")
        s  == IF ~verify THEN s0
              ELSE [s0 EXCEPT !.verified = (out.kind = "ftpok"),
                              !.verificationError =
                                  IF ~isErrDeterminate(out)
                                  THEN (IF out.kind = "ftpok" THEN "none" ELSE out.kind)
                                  ELSE "none"]
    IN  IF ~s.verified /\ dollar THEN {}
        ELSE IF falsePositive THEN {}
        ELSE {s}

\* couchbase Scanner.FromData, the body of the innermost loop for a password
\* that meets the requirements. "fatal" stands for log.Fatal (os.Exit(1)).
couchbase_candidate(verify, out) ==
    LET s1 == NewResult("couchbase") IN
    IF ~verify THEN [fatal |-> FALSE, res |-> {s1}]
    ELSE IF out.kind = "profileerr" THEN [fatal |-> TRUE, res |-> {}]
    ELSE IF out.kind = "connecterr" THEN [fatal |-> FALSE, res |-> {}]
    ELSE IF out.kind = "pingerr" THEN [fatal |-> FALSE, res |-> {}]
    ELSE IF out.kind = "pingok"
         THEN [fatal |-> FALSE, res |-> {[s1 EXCEPT !.verified = TRUE]}]
         ELSE [fatal |-> FALSE, res |-> {s1}]

\* docusign Scanner.FromData, the body of the id x secret loop. client.Do's
\* error is overwritten unread, so after a failed request res is nil and
\* res.Body is a nil pointer dereference: "panic". parsed: json.Unmarshal of
\* the body succeeds (it fails on a body that could not be read); ey: the
\* access token starts with "ey"; falsePositive: IsKnownFalsePositive.
docusign_candidate(verify, out, parsed, ey, falsePositive) ==
    LET s1 == NewResult("docusign") IN
    IF ~verify THEN [ending |-> "running", res |-> {s1}]
    ELSE IF out.kind # "http" THEN [ending |-> "panic", res |-> {}]
    ELSE IF ~parsed THEN [ending |-> "running", res |-> {s1}]
    ELSE IF Is2xx(out.code) /\ ey
         THEN [ending |-> "running", res |-> {[s1 EXCEPT !.verified = TRUE]}]
         ELSE IF falsePositive
              THEN [ending |-> "running", res |-> {}]
              ELSE [ending |-> "running", res |-> {s1}]

Detectors ==
    {"twilio", "grafanaserviceaccount", "databrickstoken", "zipapi", "ftp", "couchbase",
     "docusign"}

\* results = append(results, s1), or nothing when the candidate was skipped.
AppendAll(seq, set) == IF set = {} THEN seq ELSE Append(seq, CHOOSE r \in set : TRUE)

\* One iteration of a FromData loop: the candidate's outcome is logged next to
\* what was appended for it.
Visit(det, out, res, fatal) ==
    /\ d_state = "running"
    /\ d_det = det
    /\ d_left > 0
    /\ d_left' = d_left - 1
    /\ d_results' = AppendAll(d_results, res)
    /\ d_log' = Append(d_log, [outcome |-> IF d_verify THEN out ELSE NoOutcome,
                               appended |-> res])
    /\ d_state' = IF fatal THEN "fatal" ELSE "running"
    /\ UNCHANGED <<d_det, d_verify>>
    /\ d_frame

TwilioFromData ==
    \E out \in HttpOutcomes : Visit("twilio", out, twilio_candidate(d_verify, out), FALSE)

GrafanaFromData ==
    \E out \in HttpOutcomes :
        Visit("grafanaserviceaccount", out,
              grafanaserviceaccount_candidate(d_verify, out), FALSE)

DatabricksFromData ==
    \E out \in HttpOutcomes :
        Visit("databrickstoken", out, databrickstoken_candidate(d_verify, out), FALSE)

ZipapiFromData ==
    \E out \in HttpOutcomes : Visit("zipapi", out, zipapi_candidate(d_verify, out), FALSE)

FtpFromData ==
    \E out \in FtpOutcomes, dollar \in BOOLEAN, falsePositive \in BOOLEAN :
        Visit("ftp", out, ftp_candidate(d_verify, out, dollar, falsePositive), FALSE)

CouchbaseFromData ==
    \E out \in CouchbaseOutcomes :
        LET c == couchbase_candidate(d_verify, out)
        IN  Visit("couchbase", out, c.res, c.fatal)

\* One iteration of docusign's loop; a panic unwinds FromData.
DocusignFromData ==
    \E out \in HttpOutcomes, parsed \in BOOLEAN, ey \in BOOLEAN, falsePositive \in BOOLEAN :
        LET c == docusign_candidate(d_verify, out, parsed, ey, falsePositive) IN
        /\ d_state = "running"
        /\ d_det = "docusign"
        /\ d_left > 0
        /\ d_left' = d_left - 1
        /\ d_results' = AppendAll(d_results, c.res)
        /\ d_log' = Append(d_log, [outcome |-> IF d_verify THEN out ELSE NoOutcome,
                                   appended |-> c.res])
        /\ d_state' = c.ending
        /\ UNCHANGED <<d_det, d_verify>>
        /\ d_frame

\* return results, nil
FromDataReturn ==
    /\ d_state = "running"
    /\ d_left = 0
    /\ d_state' = "returned"
    /\ UNCHANGED <<d_det, d_verify, d_left, d_results, d_log>>
    /\ d_frame

InitDetectors ==
    /\ d_det \in Detectors
    /\ d_verify \in BOOLEAN
    /\ d_left \in 0..MaxCandidates
    /\ d_results = <<>>
    /\ d_log = <<>>
    /\ d_state = "running"

IdleDetectors ==
    /\ d_det = "twilio"
    /\ d_verify = FALSE
    /\ d_left = 0
    /\ d_results = <<>>
    /\ d_log = <<>>
    /\ d_state = "returned"

NextDetectors ==
    \/ TwilioFromData
    \/ GrafanaFromData
    \/ DatabricksFromData
    \/ ZipapiFromData
    \/ FtpFromData
    \/ CouchbaseFromData
    \/ DocusignFromData
    \/ FromDataReturn


----------------------------------------------------------------------------
(* Git source: ScanCommits on one diff, and gitChunk                       *)

\* sources.ChunkSize and sources.PeekSize, and bufio's startBufSize and
\* MaxScanTokenSize, scaled down (10240, 3072, 4096 and 65536 in the build):
\* startBufSize < ChunkSize < MaxScanTokenSize as there.
ChunkSize == 3
PeekSize == 1
startBufSize == 2
MaxScanTokenSize == 8

\* The diffs scanned: at most MaxLines lines of at most MaxLineLen bytes.
MaxLines == 3
MaxLineLen == 8

\* Bytes: '\n' and the letters a (97) and b (98); 0 is the zero byte of a
\* fresh array.
NL == 10

Min(a, b) == IF a < b THEN a ELSE b

\* Line number n of a diff holds k copies of one letter; neighbouring lines
\* hold different letters.
LineOf(n, k) == [i \in 1..k |-> IF n % 2 = 1 THEN 97 ELSE 98]

RECURSIVE ContentsOf(_)
ContentsOf(n) ==
    IF n = 0 THEN {<<>>}
    ELSE {rest \o LineOf(n, k) \o <<NL>> : k \in 0..MaxLineLen, rest \in ContentsOf(n - 1)}

\* diff.Content as gitparse builds it: the added lines, each with its '\n',
\* the last one possibly without.
DiffContents ==
    LET full == UNION {ContentsOf(n) : n \in 1..MaxLines}
    IN  full \cup {SubSeq(c, 1, Len(c) - 1) : c \in full}

\* copy(dst[at:], src): dst with src written from index at (0-based).
CopyInto(dst, at, src) ==
    [i \in 1..Len(dst) |->
        IF i > at /\ i <= at + Len(src) THEN src[i - at] ELSE dst[i]]

\* bufio.NewScanner: no buffer yet. bufs holds every array the scanner has
\* allocated, cur is the index of s.buf in it (0: nil).
NewScanner ==
    [bufs |-> <<>>, cur |-> 0, start |-> 0, end |-> 0, eof |-> FALSE,
     ok |-> FALSE, lo |-> 0, hi |-> 0, tooLong |-> FALSE]

BufOf(sc) == IF sc.cur = 0 THEN <<>> ELSE sc.bufs[sc.cur]

\* bufio.ScanLines on data (no '\r' occurs): the 0-based index of the first
\* '\n', or -1.
IndexNL(data) ==
    IF \E i \in 1..Len(data) : data[i] = NL
    THEN (CHOOSE i \in 1..Len(data) :
              data[i] = NL /\ \A j \in 1..(i - 1) : data[j] # NL) - 1
    ELSE -1

\* bufio.Scanner.Scan reading from src (a bytes.Buffer): the scanner and the
\* source after the call. ok: Scan returned true and the token is
\* s.buf[lo:hi], a view of the scanner's current array.
RECURSIVE Scan(_, _)
Scan(sc, src) ==
    LET buf  == BufOf(sc)
        data == SubSeq(buf, sc.start + 1, sc.end)
        i    == IndexNL(data)
    IN
    IF (sc.end > sc.start \/ sc.eof) /\ i >= 0
    THEN [sc  |-> [sc EXCEPT !.start = sc.start + i + 1, !.ok = TRUE,
                             !.lo = sc.start, !.hi = sc.start + i],
          src |-> src]
    ELSE IF sc.eof /\ Len(data) > 0
    THEN [sc  |-> [sc EXCEPT !.start = sc.end, !.ok = TRUE,
                             !.lo = sc.start, !.hi = sc.end],
          src |-> src]
    ELSE IF sc.eof
    THEN [sc |-> [sc EXCEPT !.start = 0, !.end = 0, !.ok = FALSE], src |-> src]
    ELSE
      \* Must read more data. First, shift data to the beginning of the buffer.
      LET shift == sc.start > 0 /\ (sc.end = Len(buf) \/ sc.start > Len(buf) \div 2)
          sc1 == IF shift
                 THEN [sc EXCEPT !.bufs[sc.cur] = CopyInto(buf, 0, data),
                                 !.end = sc.end - sc.start, !.start = 0]
                 ELSE sc
          buf1 == BufOf(sc1)
      IN
      IF sc1.end = Len(buf1) /\ Len(buf1) >= MaxScanTokenSize
      THEN \* ErrTooLong
           [sc |-> [sc1 EXCEPT !.ok = FALSE, !.tooLong = TRUE], src |-> src]
      ELSE
        \* Is the buffer full? If so, resize: a new array.
        LET grow == sc1.end = Len(buf1)
            newSize == IF Len(buf1) = 0 THEN Min(startBufSize, MaxScanTokenSize)
                       ELSE Min(2 * Len(buf1), MaxScanTokenSize)
            newBuf == CopyInto([k \in 1..newSize |-> 0], 0,
                               SubSeq(buf1, sc1.start + 1, sc1.end))
            sc2 == IF grow
                   THEN [sc1 EXCEPT !.bufs = Append(sc1.bufs, newBuf),
                                    !.cur = Len(sc1.bufs) + 1,
                                    !.end = sc1.end - sc1.start, !.start = 0]
                   ELSE sc1
            buf2 == BufOf(sc2)
            \* s.r.Read(s.buf[s.end:len(s.buf)]): bytes.Buffer.Read
            n == Min(Len(buf2) - sc2.end, Len(src))
        IN
        IF Len(src) = 0
        THEN Scan([sc2 EXCEPT !.eof = TRUE], src)
        ELSE Scan([sc2 EXCEPT !.bufs[sc2.cur] = CopyInto(buf2, sc2.end, SubSeq(src, 1, n)),
                              !.end = sc2.end + n],
                  SubSeq(src, n + 1, Len(src)))

\* A chunk whose Data is a slice of its own (a copy, or the diff's content,
\* which nothing writes after the commit was parsed).
OwnedChunk(data) == [owned |-> TRUE, data |-> data, arr |-> 0, lo |-> 0, hi |-> 0,
                     sent |-> data]

\* A chunk whose Data is the slice bufs[arr][lo:hi] of the scanner.
ViewChunk(sc, lo, hi) ==
    [owned |-> FALSE, data |-> <<>>, arr |-> sc.cur, lo |-> lo, hi |-> hi,
     sent |-> SubSeq(BufOf(sc), lo + 1, hi)]

\* The bytes a receiver reads through chunk.Data now.
DataOf(c) == IF c.owned THEN c.data ELSE SubSeq(g_sc.bufs[c.arr], c.lo + 1, c.hi)

\* gitChunk, "Send the oversize line": Data: line, with line the scanner's
\* originalChunk.Bytes().
OversizeLineChunk(sc, lo, hi) == ViewChunk(sc, lo, hi)

\* ScanCommits, for one text diff with a file name that passes the filter.
ScanDiff ==
    /\ g_pc = "start"
    /\ IF Len(g_src) > ChunkSize + PeekSize
       THEN /\ g_pc' = "gitChunk"
            /\ UNCHANGED <<g_src, g_chan>>
       ELSE /\ g_pc' = "done"
            /\ g_chan' = Append(g_chan, OwnedChunk(g_src))
            /\ g_src' = <<>>
    /\ UNCHANGED <<g_sc, g_new, g_diff>>
    /\ g_frame

\* gitChunk: one iteration of the loop, originalChunk.Scan() having returned
\* true.
GitChunkLine ==
    /\ g_pc = "gitChunk"
    /\ LET r    == Scan(g_sc, g_src)
           sc   == r.sc
           line == SubSeq(BufOf(sc), sc.lo + 1, sc.hi)
           over == Len(line) > ChunkSize \/ Len(line) + Len(g_new) > ChunkSize
           frag == IF over /\ Len(g_new) > 0 THEN <<OwnedChunk(g_new)>> ELSE <<>>
           big  == IF Len(line) > ChunkSize
                   THEN <<OversizeLineChunk(sc, sc.lo, sc.hi)>> ELSE <<>>
       IN  /\ sc.ok
           /\ g_sc' = sc
           /\ g_src' = r.src
           /\ g_chan' = g_chan \o frag \o big
           /\ g_new' = IF Len(line) > ChunkSize THEN <<>>
                       ELSE IF over THEN line
                       ELSE g_new \o line
    /\ UNCHANGED <<g_pc, g_diff>>
    /\ g_frame

\* gitChunk: Scan returned false; send what is left in the new chunk buffer.
GitChunkEnd ==
    /\ g_pc = "gitChunk"
    /\ LET r == Scan(g_sc, g_src)
       IN  /\ ~r.sc.ok
           /\ g_sc' = r.sc
           /\ g_src' = r.src
           /\ g_chan' = IF Len(g_new) > 0 THEN Append(g_chan, OwnedChunk(g_new))
                        ELSE g_chan
    /\ g_pc' = "done"
    /\ UNCHANGED <<g_new, g_diff>>
    /\ g_frame

InitGit ==
    /\ g_pc = "start"
    /\ g_src \in DiffContents
    /\ g_diff = g_src
    /\ g_sc = NewScanner
    /\ g_new = <<>>
    /\ g_chan = <<>>

IdleGit ==
    /\ g_pc = "done"
    /\ g_src = <<>>
    /\ g_diff = <<>>
    /\ g_sc = NewScanner
    /\ g_new = <<>>
    /\ g_chan = <<>>

NextGit ==
    \/ ScanDiff
    \/ GitChunkLine
    \/ GitChunkEnd

----------------------------------------------------------------------------
(* Decoders: Base64.FromChunk                                              *)

\* The threshold FromChunk passes to getSubstringsOfCharacterSet.
b64Threshold == 20

\* The longest run of base64 characters in a chunk of the model.
MaxRunLen == 25

PLUS == 43
SLASH == 47
EQUALS == 61

\* b64Charset
IsB64Char(c) ==
    \/ c >= 65 /\ c <= 90
    \/ c >= 97 /\ c <= 122
    \/ c >= 48 /\ c <= 57
    \/ c \in {PLUS, SLASH, EQUALS}

\* b64EndChars
IsB64EndChar(c) == c \in {PLUS, SLASH, EQUALS}

\* The value of a digit of the standard base64 alphabet, -1 for any other byte.
B64Value(c) ==
    IF c >= 65 /\ c <= 90 THEN c - 65
    ELSE IF c >= 97 /\ c <= 122 THEN c - 97 + 26
    ELSE IF c >= 48 /\ c <= 57 THEN c - 48 + 52
    ELSE IF c = PLUS THEN 62
    ELSE IF c = SLASH THEN 63
    ELSE -1

\* bytes.TrimLeft(s, b64EndChars)
RECURSIVE TrimLeftEnd(_)
TrimLeftEnd(str) ==
    IF Len(str) > 0 /\ IsB64EndChar(str[1]) THEN TrimLeftEnd(Tail(str)) ELSE str

\* bytes.TrimRight(s, b64EndChars)
RECURSIVE TrimRightEnd(_)
TrimRightEnd(str) ==
    IF Len(str) > 0 /\ IsB64EndChar(str[Len(str)])
    THEN TrimRightEnd(SubSeq(str, 1, Len(str) - 1)) ELSE str

\* bytes.IndexByte(s, c): 0-based, -1 when absent.
IndexByte(str, c) ==
    IF \E i \in 1..Len(str) : str[i] = c
    THEN (CHOOSE i \in 1..Len(str) : str[i] = c /\ \A j \in 1..(i - 1) : str[j] # c) - 1
    ELSE -1

\* bytes.Index(s, sep): 0-based index of the first occurrence, -1 when absent.
Index(str, sep) ==
    LET at(i) == i + Len(sep) <= Len(str) /\ SubSeq(str, i + 1, i + Len(sep)) = sep
    IN  IF \E i \in 0..Len(str) : at(i)
        THEN CHOOSE i \in 0..Len(str) : at(i) /\ \A j \in 0..(i - 1) : ~at(j)
        ELSE -1

\* appendB64Substring: the substring kept for the run data[start:start+count].
appendB64Substring(data, start, count, substrings) ==
    LET substring == TrimLeftEnd(SubSeq(data, start + 1, start + count))
        idx == IndexByte(TrimRightEnd(substring), EQUALS)
    IN  IF idx # -1
        THEN Append(substrings, SubSeq(substring, idx + 2, Len(substring)))
        ELSE Append(substrings, substring)

\* getSubstringsOfCharacterSet, the second loop, from index i (1-based) on.
RECURSIVE SubstringsFrom(_, _, _, _, _, _)
SubstringsFrom(data, threshold, i, start, count, substrings) ==
    IF i > Len(data)
    THEN IF count > threshold
         THEN appendB64Substring(data, start, count, substrings)
         ELSE substrings
    ELSE IF data[i] < 128 /\ IsB64Char(data[i])
         THEN SubstringsFrom(data, threshold, i + 1,
                             IF count = 0 THEN i - 1 ELSE start, count + 1, substrings)
         ELSE SubstringsFrom(data, threshold, i + 1, start, 0,
                             IF count > threshold
                             THEN appendB64Substring(data, start, count, substrings)
                             ELSE substrings)

getSubstringsOfCharacterSet(data, threshold) ==
    IF Len(data) = 0 THEN <<>>
    ELSE SubstringsFrom(data, threshold, 1, 0, 0, <<>>)

\* The bytes of one quantum of n digits (4, or 3 or 2 before padding).
QuantumBytes(q, n) ==
    LET v(k) == IF k <= n THEN B64Value(q[k]) ELSE 0
        val == v(1) * 262144 + v(2) * 4096 + v(3) * 64 + v(4)
        all == <<(val \div 65536) % 256, (val \div 256) % 256, val % 256>>
    IN  SubSeq(all, 1, n - 1)

RECURSIVE DecodeQuanta(_)
DecodeQuanta(str) ==
    IF Len(str) = 0 THEN <<>>
    ELSE LET q == SubSeq(str, 1, 4)
             n == IF q[3] = EQUALS THEN 2 ELSE IF q[4] = EQUALS THEN 3 ELSE 4
         IN  QuantumBytes(q, n) \o DecodeQuanta(SubSeq(str, 5, Len(str)))

\* base64.StdEncoding.DecodeString: padded, not strict. The input is well
\* formed when its length is a multiple of 4 and only its last one or two
\* bytes are padding.
WellFormedB64(str) ==
    /\ Len(str) % 4 = 0
    /\ \A i \in 1..Len(str) :
          \/ B64Value(str[i]) >= 0
          \/ /\ str[i] = EQUALS
             /\ \/ i = Len(str)
                \/ i = Len(str) - 1 /\ str[Len(str)] = EQUALS

DecodeString(str) ==
    IF WellFormedB64(str) THEN [err |-> FALSE, dec |-> DecodeQuanta(str)]
    ELSE [err |-> TRUE, dec |-> <<>>]

\* FromChunk: the keys of decodedSubstrings.
Decodable(str) == LET d == DecodeString(str) IN ~d.err /\ Len(d.dec) > 0

\* FromChunk, the loop that rebuilds the data: what is written to result from
\* encodedSubstrings[k] on, start being the read position in data.
RECURSIVE Rebuild(_, _, _, _)
Rebuild(data, encodedSubstrings, k, start) ==
    IF k > Len(encodedSubstrings) THEN SubSeq(data, start + 1, Len(data))
    ELSE LET encoded == encodedSubstrings[k]
             end == Index(SubSeq(data, start + 1, Len(data)), encoded)
         IN  IF Decodable(encoded) /\ end # -1
             THEN SubSeq(data, start + 1, start + end) \o DecodeString(encoded).dec
                    \o Rebuild(data, encodedSubstrings, k + 1, start + end + Len(encoded))
             ELSE Rebuild(data, encodedSubstrings, k + 1, start)

\* Base64.FromChunk on a chunk whose Data is data: the chunk's Data after the
\* call, and the chunk returned: "nil", or "same" for the pointer it was given.
Base64_FromChunk(data) ==
    LET encodedSubstrings == getSubstringsOfCharacterSet(data, b64Threshold)
    IN  IF \E k \in DOMAIN encodedSubstrings : Decodable(encodedSubstrings[k])
        THEN LET result == Rebuild(data, encodedSubstrings, 1, 0)
             IN  [chunkData |-> result, ret |-> "same", retData |-> result]
        ELSE [chunkData |-> data, ret |-> "nil", retData |-> <<>>]

\* The chunks of the model: text, a run of n base64 digits with optional '+'
\* before and padding after it, and text.
Run(n, c) == [i \in 1..n |-> c]

B64Inputs ==
    {pre \o lead \o Run(n, c) \o pad \o post :
        pre \in {<<>>, <<107, 61, 32>>},
        lead \in {<<>>, <<PLUS>>},
        n \in (b64Threshold - 2)..MaxRunLen,
        c \in {65, 104, 57},
        pad \in {<<>>, <<EQUALS>>, <<EQUALS, EQUALS>>},
        post \in {<<>>, <<32, 120>>}}

FromChunk ==
    /\ b_pc = "call"
    /\ LET r == Base64_FromChunk(b_data)
       IN  /\ b_data' = r.chunkData
           /\ b_ret' = [ret |-> r.ret, data |-> r.retData]
    /\ b_pc' = "returned"
    /\ UNCHANGED b_before
    /\ b_frame

InitBase64 ==
    /\ b_pc = "call"
    /\ b_data \in B64Inputs
    /\ b_before = b_data
    /\ b_ret = [ret |-> "nil", data |-> <<>>]

IdleBase64 ==
    /\ b_pc = "returned"
    /\ b_data = <<>>
    /\ b_before = <<>>
    /\ b_ret = [ret |-> "nil", data |-> <<>>]

NextBase64 == FromChunk

----------------------------------------------------------------------------
(* bufferedfilewriter, and the temporary files at shutdown                 *)

\* The largest threshold, the largest len(data) of one Write, and the number
\* of Write calls over all writers.
MaxThreshold == 2
MaxWriteLen == 2
MaxWrites == 3

\* Temporary artifacts of earlier runs found on disk at startup, at most.
MaxPrior == 1

\* The seconds after the signal that the clock counts.
MaxClock == 11

\* The findings that reach the engine's result filter in one run.
MaxFindings == 2

\* run: time.Sleep(time.Second * 10)
gracePeriod == 10

Writers == {1, 2}

\* bytes.Buffer: the slice buf[off:] as the array it points into (0: nil) and
\* its length. Writes of the model stay below the first capacity a Buffer
\* allocates (64 bytes), so a Buffer never moves to another array.
NilBuffer == [arr |-> 0, len |-> 0]

\* w.buf.Bytes() / w.buf.String()
BytesOf(arrays, buf) == IF buf.arr = 0 THEN <<>> ELSE SubSeq(arrays[buf.arr], 1, buf.len)

\* bytes.Buffer.Write(data) on buffer buf: the buffer and the arrays after it.
BufferWrite(arrays, buf, data) ==
    IF buf.arr = 0
    THEN [buf |-> [arr |-> Len(arrays) + 1, len |-> Len(data)],
          arrays |-> Append(arrays, data)]
    ELSE LET old == arrays[buf.arr]
             ext == IF Len(old) >= buf.len + Len(data) THEN old
                    ELSE old \o [i \in 1..(buf.len + Len(data) - Len(old)) |-> 0]
         IN  [buf |-> [buf EXCEPT !.len = buf.len + Len(data)],
              arrays |-> [arrays EXCEPT ![buf.arr] = CopyInto(ext, buf.len, data)]]

\* New(opts...)
New ==
    [size |-> 0, buf |-> NilBuffer, file |-> "nil", life |-> "open"]

NoReader == [state |-> "none", kind |-> "none", arr |-> 0, len |-> 0, got |-> <<>>]

NoFile == [created |-> FALSE, exists |-> FALSE, content |-> <<>>]

\* What bufferPool.Get() can return: a pointer the pool holds, &x.buf written
\* x, or 0 for a Buffer made by New (the pool is empty, or Get ignores it).
PoolChoices == {0} \cup {x \in Writers : w_pool[x] > 0}

\* A faulty variant of WithinThreshold: the comparison is strict.
WithinThreshold_strict(bufLen, size, threshold) == bufLen + size < threshold

\* Write: uint64(w.buf.Len())+size <= w.threshold
WithinThreshold(bufLen, size, threshold) == bufLen + size <= threshold

\* A faulty variant of autoDeletingFileReader_Close: the file is closed, not removed.
autoDeletingFileReader_Close_keep(f) == [f EXCEPT !.exists = f.exists]

\* autoDeletingFileReader.Close: r.File.Close(), then the deferred
\* os.Remove(r.Name()).
autoDeletingFileReader_Close(f) == [f EXCEPT !.exists = FALSE]

\* BufferedFileWriter.Write(ctx, data) on writer w, data being n copies of a
\* byte that no other Write uses. get is what bufferPool.Get returns if it is
\* called, createOk whether os.CreateTemp succeeds if it is called.
Write(w, n, get, createOk) ==
    LET me     == w_st[w]
        data   == [i \in 1..n |-> Len(w_hist.order) + 1]
        \* if w.buf.Len() == 0 { bufPtr := bufferPool.Get(); bufPtr.Reset(); w.buf = *bufPtr }
        doGet  == me.buf.len = 0
        taken  == IF doGet THEN get ELSE 0
        pool1  == IF taken # 0 THEN [w_pool EXCEPT ![taken] = @ - 1] ELSE w_pool
        st1    == IF taken # 0 THEN [w_st EXCEPT ![taken].buf.len = 0] ELSE w_st
        buf1   == IF ~doGet THEN me.buf
                  ELSE IF taken = 0 THEN NilBuffer
                  ELSE [arr |-> st1[taken].buf.arr, len |-> 0]
        inMem  == WithinThreshold(buf1.len, n, w_T)
        bw     == BufferWrite(w_arrays, buf1, data)
        create == ~inMem /\ me.file = "nil"
        failed == create /\ ~createOk
        flush  == create /\ createOk /\ buf1.len > 0
        file1  == IF create
                  THEN [created |-> TRUE, exists |-> TRUE,
                        content |-> BytesOf(w_arrays, buf1)]
                  ELSE w_fs[w]
        \* w.buf.Reset(); bufferPool.Put(&w.buf)
        buf2   == IF inMem THEN bw.buf
                  ELSE IF flush THEN [buf1 EXCEPT !.len = 0]
                  ELSE buf1
        pool2  == IF flush THEN [pool1 EXCEPT ![w] = @ + 1] ELSE pool1
    IN
    /\ w \in w_active
    /\ me.life = "open"
    /\ Len(w_hist.order) < MaxWrites
    /\ get \in PoolChoices
    /\ (doGet \/ get = 0)
    /\ (create \/ createOk)
    /\ w_pool' = pool2
    /\ w_arrays' = IF inMem THEN bw.arrays ELSE w_arrays
    /\ w_st' = [st1 EXCEPT ![w].buf = buf2,
                           ![w].size = me.size + n,
                           ![w].file = IF create /\ createOk THEN "open" ELSE me.file]
    /\ w_fs' = IF inMem \/ failed THEN w_fs
               ELSE [w_fs EXCEPT ![w] = [file1 EXCEPT !.content = @ \o data]]
    /\ w_hist' = [w_hist EXCEPT
                    !.order = Append(@, w),
                    !.written[w] = IF failed THEN @ ELSE @ \o data,
                    !.failed[w] = @ \/ failed,
                    !.total[w] = IF failed THEN @ ELSE @ + n,
                    !.usedAfterPut = @ \/ w_hist.released[w],
                    !.released[w] = IF flush THEN TRUE
                                    ELSE IF doGet THEN pool2[w] > 0
                                    ELSE @]
    /\ UNCHANGED <<w_T, w_active, w_rd>>

\* BufferedFileWriter.Close()
Close(w) ==
    LET me == w_st[w] IN
    /\ w \in w_active
    /\ me.life = "open"
    /\ w_st' = [w_st EXCEPT ![w].life = "closed",
                            ![w].file = IF me.file = "nil" THEN "nil" ELSE "closed"]
    /\ w_fs' = IF me.file # "nil" /\ me.buf.len > 0
               THEN [w_fs EXCEPT ![w].content = @ \o BytesOf(w_arrays, me.buf)]
               ELSE w_fs
    /\ w_hist' = [w_hist EXCEPT
                    !.usedAfterPut = @ \/ (me.file # "nil" /\ w_hist.released[w])]
    /\ UNCHANGED <<w_T, w_active, w_arrays, w_pool, w_rd>>

\* BufferedFileWriter.ReadCloser(), called once the writer is closed. openOk:
\* whether os.Open succeeds.
ReadCloser(w, openOk) ==
    LET me == w_st[w] IN
    /\ w \in w_active
    /\ me.life = "closed"
    /\ w_rd[w].state = "none"
    /\ (me.file # "nil" \/ openOk)
    /\ w_rd' = [w_rd EXCEPT ![w] =
                  IF me.file # "nil"
                  THEN IF openOk /\ w_fs[w].exists
                       THEN [NoReader EXCEPT !.state = "open", !.kind = "file"]
                       ELSE [NoReader EXCEPT !.state = "error"]
                  ELSE [NoReader EXCEPT !.state = "open", !.kind = "buffer",
                                        !.arr = me.buf.arr, !.len = me.buf.len]]
    /\ w_hist' = [w_hist EXCEPT
                    !.usedAfterPut = @ \/ (me.file = "nil" /\ w_hist.released[w])]
    /\ UNCHANGED <<w_T, w_active, w_st, w_arrays, w_pool, w_fs>>

\* io.ReadAll on the reader of writer w.
ReadAll(w) ==
    LET r == w_rd[w] IN
    /\ w \in w_active
    /\ r.state = "open"
    /\ w_rd' = [w_rd EXCEPT ![w].state = "read",
                            ![w].got = IF r.kind = "file" THEN w_fs[w].content
                                       ELSE BytesOf(w_arrays, [arr |-> r.arr, len |-> r.len])]
    /\ UNCHANGED <<w_T, w_active, w_st, w_arrays, w_pool, w_fs, w_hist>>

\* Close on the reader of writer w: autoDeletingFileReader.Close, or
\* bufferReadCloser.Close, whose onClose is bufferPool.Put(&w.buf).
ReaderClose(w) ==
    LET r == w_rd[w] IN
    /\ w \in w_active
    /\ r.state \in {"open", "read"}
    /\ w_rd' = [w_rd EXCEPT ![w].state = "closed"]
    /\ w_fs' = IF r.kind = "file"
               THEN [w_fs EXCEPT ![w] = autoDeletingFileReader_Close(@)]
               ELSE w_fs
    /\ w_pool' = IF r.kind = "buffer" THEN [w_pool EXCEPT ![w] = @ + 1] ELSE w_pool
    /\ w_hist' = IF r.kind = "buffer" THEN [w_hist EXCEPT !.released[w] = TRUE]
                 ELSE w_hist
    /\ UNCHANGED <<w_T, w_active, w_st, w_arrays>>

\* The process runs: its goroutines can take steps.
Alive == s_pc.signal # "exited" /\ s_main.pc # "exited"

\* A client calls Write with 1..MaxWriteLen bytes; sync.Pool.Get hands out a
\* pooled buffer or a new one, os.CreateTemp succeeds or fails.
WriterWrite ==
    \E w \in Writers, n \in 1..MaxWriteLen, get \in {0} \cup Writers, createOk \in BOOLEAN :
        Alive /\ Write(w, n, get, createOk) /\ UNCHANGED s_vars /\ w_frame

WriterClose == \E w \in Writers : Alive /\ Close(w) /\ UNCHANGED s_vars /\ w_frame

WriterReadCloser ==
    \E w \in Writers, openOk \in BOOLEAN :
        Alive /\ ReadCloser(w, openOk) /\ UNCHANGED s_vars /\ w_frame

ReaderReadAll == \E w \in Writers : Alive /\ ReadAll(w) /\ UNCHANGED s_vars /\ w_frame

ReaderDoClose == \E w \in Writers : Alive /\ ReaderClose(w) /\ UNCHANGED s_vars /\ w_frame

InitWriterWith(active) ==
    /\ w_T \in 1..MaxThreshold
    /\ w_active = active
    /\ w_st = [w \in Writers |-> New]
    /\ w_arrays = <<>>
    /\ w_pool = [w \in Writers |-> 0]
    /\ w_fs = [w \in Writers |-> NoFile]
    /\ w_rd = [w \in Writers |-> NoReader]
    /\ w_hist = [order |-> <<>>,
                 written |-> [w \in Writers |-> <<>>],
                 total |-> [w \in Writers |-> 0],
                 failed |-> [w \in Writers |-> FALSE],
                 released |-> [w \in Writers |-> FALSE],
                 usedAfterPut |-> FALSE]

\* run: the goroutine started first has not yet cleaned the temporary
\* artifacts, the signal goroutine waits on killSignal, ctx is not cancelled.
RunStarted == [startup |-> "pending", signal |-> "waiting", cancelled |-> FALSE]

\* run before runSingleScan has returned: no signal has arrived, no finding
\* has been detected, --fail is not set and every category passes --results.
MainScanning == [pc |-> "scanning", exit |-> -1, how |-> "none"]

NoFindings == [found |-> FALSE, emitted |-> FALSE, n |-> 0]

IdleMain ==
    /\ s_clock = 0
    /\ s_sleep = 0
    /\ s_main = MainScanning
    /\ s_cfg = [fail |-> FALSE, results |-> {}]
    /\ s_eng = NoFindings

InitWriter == InitWriterWith(Writers) /\ s_pc = RunStarted /\ s_prior = 0 /\ IdleMain

IdleWriter ==
    /\ InitWriterWith({})
    /\ w_T = 1
    /\ s_pc = [startup |-> "done", signal |-> "exited", cancelled |-> FALSE]
    /\ s_prior = 0
    /\ IdleMain

NextWriter ==
    \/ WriterWrite
    \/ WriterClose
    \/ WriterReadCloser
    \/ ReaderReadAll
    \/ ReaderDoClose

\* cleantemp.CleanTempArtifacts: walks the temp dir and unlinks the artifacts
\* of earlier runs that match the prefix pattern. prior: how many of those
\* are on disk; fs: the temporary files of this process.
CleanTempArtifacts(prior, fs) == [prior |-> 0, fs |-> fs]

\* run: go func() { cleantemp.CleanTempArtifacts(ctx) }()
StartupClean ==
    /\ Alive
    /\ s_pc.startup = "pending"
    /\ s_pc' = [s_pc EXCEPT !.startup = "done"]
    /\ s_prior' = CleanTempArtifacts(s_prior, w_fs).prior
    /\ w_fs' = CleanTempArtifacts(s_prior, w_fs).fs
    /\ UNCHANGED <<w_T, w_active, w_st, w_arrays, w_pool, w_rd, w_hist>>
    /\ UNCHANGED <<s_clock, s_sleep, s_main, s_cfg, s_eng>>
    /\ w_frame

\* run, the signal goroutine: <-killSignal; cancel(...)
SignalCancel ==
    /\ Alive
    /\ s_pc.signal = "waiting"
    /\ s_pc' = [s_pc EXCEPT !.signal = "cancelled", !.cancelled = TRUE]
    /\ UNCHANGED <<s_prior, w_vars, s_clock, s_sleep, s_main, s_cfg, s_eng>>
    /\ w_frame

\* run, the signal goroutine: cleantemp.CleanTempArtifacts(ctx), then the
\* call of time.Sleep.
SignalClean ==
    /\ Alive
    /\ s_pc.signal = "cancelled"
    /\ s_pc' = [s_pc EXCEPT !.signal = "cleaned"]
    /\ s_prior' = CleanTempArtifacts(s_prior, w_fs).prior
    /\ w_fs' = CleanTempArtifacts(s_prior, w_fs).fs
    /\ s_sleep' = s_clock
    /\ UNCHANGED <<w_T, w_active, w_st, w_arrays, w_pool, w_rd, w_hist>>
    /\ UNCHANGED <<s_clock, s_main, s_cfg, s_eng>>
    /\ w_frame

\* A second passes after the signal, while the process runs.
Tick ==
    /\ Alive
    /\ s_pc.signal \in {"cancelled", "cleaned"}
    /\ s_clock < MaxClock
    /\ s_clock' = s_clock + 1
    /\ UNCHANGED <<s_pc, s_prior, s_sleep, s_main, s_cfg, s_eng, w_vars>>
    /\ w_frame

\* A faulty variant of SleepReturned: the sleep is one second long.
SleepReturned_short(slept) == slept >= 1

\* time.Sleep(time.Second * 10) returns once its duration has passed.
SleepReturned(slept) == slept >= gracePeriod

\* run, the signal goroutine: time.Sleep returns; os.Exit(0)
SignalExit ==
    /\ Alive
    /\ s_pc.signal = "cleaned"
    /\ SleepReturned(s_clock - s_sleep)
    /\ s_pc' = [s_pc EXCEPT !.signal = "exited"]
    /\ s_main' = [pc |-> "exited", exit |-> 0, how |-> "signal"]
    /\ UNCHANGED <<s_prior, w_vars, s_clock, s_sleep, s_cfg, s_eng>>
    /\ w_frame

InitShutdown ==
    /\ InitWriterWith({1})
    /\ s_pc = RunStarted
    /\ s_prior \in 0..MaxPrior
    /\ IdleMain

NextShutdown ==
    \/ WriterWrite
    \/ WriterClose
    \/ WriterReadCloser
    \/ ReaderReadAll
    \/ ReaderDoClose
    \/ StartupClean
    \/ SignalCancel
    \/ SignalClean
    \/ Tick
    \/ SignalExit

\* parseResults: the values --results accepts.
ResultKinds == {"verified", "unknown", "unverified", "filtered_unverified"}

\* The engine's results filter: the configured subset of the categories
\* gates which findings reach the dispatcher.
Dispatched(kind, results) == kind \in results

\* Engine.HasFoundResults after one more finding of category kind: the
\* engine counts a finding whether or not the results filter lets it through.
HasFoundResults(found, kind, results) == found \/ kind \in ResultKinds

\* runSingleScan is running: a detector result of some category reaches the
\* engine's results filter.
EngineFinding ==
    \E kind \in ResultKinds :
        /\ Alive
        /\ s_main.pc = "scanning"
        /\ s_eng.n < MaxFindings
        /\ s_eng' = [found |-> HasFoundResults(s_eng.found, kind, s_cfg.results),
                     emitted |-> s_eng.emitted \/ Dispatched(kind, s_cfg.results),
                     n |-> s_eng.n + 1]
        /\ UNCHANGED <<s_pc, s_prior, s_clock, s_sleep, s_main, s_cfg, w_vars>>
        /\ w_frame

\* logFatalFunc: os.Exit(1) when it is given an error, os.Exit(0) otherwise.
logFatal(err) == IF err THEN 1 ELSE 0

\* run: runSingleScan returns an error; logFatal(err, "error running scan")
ScanError ==
    /\ Alive
    /\ s_main.pc = "scanning"
    /\ s_main' = [pc |-> "exited", exit |-> logFatal(TRUE), how |-> "fatal"]
    /\ UNCHANGED <<s_pc, s_prior, s_clock, s_sleep, s_cfg, s_eng, w_vars>>
    /\ w_frame

\* run after runSingleScan returned its metrics without an error:
\* os.Exit(183) if metrics.hasFoundResults && *fail, else main returns.
runExit(hasFoundResults, fail) == IF hasFoundResults /\ fail THEN 183 ELSE 0

\* run: runSingleScan returns metrics{hasFoundResults: eng.HasFoundResults()}
\* and run reaches its end.
ScanReturn ==
    /\ Alive
    /\ s_main.pc = "scanning"
    /\ s_main' = [pc |-> "exited",
                  exit |-> runExit(s_eng.found, s_cfg.fail),
                  how |-> "returned"]
    /\ UNCHANGED <<s_pc, s_prior, s_clock, s_sleep, s_cfg, s_eng, w_vars>>
    /\ w_frame

\* run with the flags parsed: --fail set or not, --results naming at least
\* one category; no writer is in use.
InitRun ==
    /\ InitWriterWith({})
    /\ w_T = 1
    /\ s_pc = RunStarted
    /\ s_prior \in 0..MaxPrior
    /\ s_clock = 0
    /\ s_sleep = 0
    /\ s_main = MainScanning
    /\ s_cfg \in [fail : BOOLEAN, results : (SUBSET ResultKinds) \ {{}}]
    /\ s_eng = NoFindings

NextRun ==
    \/ StartupClean
    \/ SignalCancel
    \/ SignalClean
    \/ Tick
    \/ SignalExit
    \/ EngineFinding
    \/ ScanError
    \/ ScanReturn

----------------------------------------------------------------------------
(* Producers of chunksChan: Git.ScanCommits, docker's Source.Chunks and    *)
(* handlers.handleChunks, and the cancellation of ctx                      *)

\* The units (diffs, files of a layer, pieces of a handled file) a producer
\* turns into chunks, at most, and the capacity of chunksChan.
MaxUnits == 2
ChanCap == 1

Producers == {"ScanCommits", "Chunks", "handleChunks"}

\* chunksChan <- chunk can complete: there is room in the channel. Nothing
\* else completes it: the consumer takes chunks out of the channel.
CanSend == c_chan < ChanCap

\* Git.ScanCommits: for _, diff := range commit.Diffs, up to the send.
ScanCommitsNext ==
    /\ c_pc["ScanCommits"] = "loop"
    /\ IF c_left["ScanCommits"] > 0
       THEN /\ c_pc' = [c_pc EXCEPT !["ScanCommits"] = "send"]
            /\ c_left' = [c_left EXCEPT !["ScanCommits"] = @ - 1]
       ELSE /\ c_pc' = [c_pc EXCEPT !["ScanCommits"] = "returned"]
            /\ UNCHANGED c_left
    /\ UNCHANGED <<c_chan, c_ctx, c_reader, c_recv>>
    /\ c_frame

\* Git.ScanCommits: chunksChan <- &sources.Chunk{...}
ScanCommitsSend ==
    /\ c_pc["ScanCommits"] = "send"
    /\ CanSend
    /\ c_chan' = c_chan + 1
    /\ c_pc' = [c_pc EXCEPT !["ScanCommits"] = "loop"]
    /\ UNCHANGED <<c_left, c_ctx, c_reader, c_recv>>
    /\ c_frame

\* docker Source.Chunks: tarReader.Next() and io.Copy, up to the send.
ChunksNext ==
    /\ c_pc["Chunks"] = "loop"
    /\ IF c_left["Chunks"] > 0
       THEN /\ c_pc' = [c_pc EXCEPT !["Chunks"] = "send"]
            /\ c_left' = [c_left EXCEPT !["Chunks"] = @ - 1]
       ELSE /\ c_pc' = [c_pc EXCEPT !["Chunks"] = "returned"]
            /\ UNCHANGED c_left
    /\ UNCHANGED <<c_chan, c_ctx, c_reader, c_recv>>
    /\ c_frame

\* docker Source.Chunks: chunksChan <- chunk
ChunksSend ==
    /\ c_pc["Chunks"] = "send"
    /\ CanSend
    /\ c_chan' = c_chan + 1
    /\ c_pc' = [c_pc EXCEPT !["Chunks"] = "loop"]
    /\ UNCHANGED <<c_left, c_ctx, c_reader, c_recv>>
    /\ c_frame

\* handleChunks, the outer select: data from handlerChan, handlerChan closed
\* (return true), or ctx.Done() (return false). c_left counts the pieces the
\* handler still delivers before it closes handlerChan.
handleChunksSelect ==
    /\ c_pc["handleChunks"] = "loop"
    /\ \/ /\ c_left["handleChunks"] > 0
          /\ c_left' = [c_left EXCEPT !["handleChunks"] = @ - 1]
          /\ c_pc' = [c_pc EXCEPT !["handleChunks"] = "send"]
       \/ /\ c_left["handleChunks"] = 0
          /\ c_pc' = [c_pc EXCEPT !["handleChunks"] = "returned"]
          /\ UNCHANGED c_left
       \/ /\ c_ctx
          /\ c_pc' = [c_pc EXCEPT !["handleChunks"] = "returned"]
          /\ UNCHANGED c_left
    /\ UNCHANGED <<c_chan, c_ctx, c_reader, c_recv>>
    /\ c_frame

\* handleChunks, the inner select: chunksChan <- &chunk, or ctx.Done().
handleChunksSend ==
    /\ c_pc["handleChunks"] = "send"
    /\ \/ /\ CanSend
          /\ c_chan' = c_chan + 1
          /\ c_pc' = [c_pc EXCEPT !["handleChunks"] = "loop"]
       \/ /\ c_ctx
          /\ c_chan' = c_chan
          /\ c_pc' = [c_pc EXCEPT !["handleChunks"] = "returned"]
    /\ UNCHANGED <<c_left, c_ctx, c_reader, c_recv>>
    /\ c_frame

\* The steps of producer p.
ProducerStep(p) ==
    \/ p = "ScanCommits" /\ (ScanCommitsNext \/ ScanCommitsSend)
    \/ p = "Chunks" /\ (ChunksNext \/ ChunksSend)
    \/ p = "handleChunks" /\ (handleChunksSelect \/ handleChunksSend)

\* The cancellation token fires.
CancelCtx ==
    /\ ~c_ctx
    /\ c_ctx' = TRUE
    /\ UNCHANGED <<c_pc, c_left, c_chan, c_reader, c_recv>>
    /\ c_frame

\* The consumer takes a chunk out of chunksChan.
ConsumerReceive ==
    /\ c_reader = "reading"
    /\ c_chan > 0
    /\ c_chan' = c_chan - 1
    /\ c_recv' = c_recv + 1
    /\ UNCHANGED <<c_pc, c_left, c_ctx, c_reader>>
    /\ c_frame

\* The consumer sees ctx.Done() and returns: chunksChan is read no more.
ConsumerStop ==
    /\ c_reader = "reading"
    /\ c_ctx
    /\ c_reader' = "stopped"
    /\ UNCHANGED <<c_pc, c_left, c_chan, c_ctx, c_recv>>
    /\ c_frame

InitChannels ==
    /\ c_pc = [p \in Producers |-> "loop"]
    /\ c_left \in [Producers -> 0..MaxUnits]
    /\ c_chan = 0
    /\ c_ctx = FALSE
    /\ c_reader = "reading"
    /\ c_recv = 0

IdleChannels ==
    /\ c_pc = [p \in Producers |-> "returned"]
    /\ c_left = [p \in Producers |-> 0]
    /\ c_chan = 0
    /\ c_ctx = FALSE
    /\ c_reader = "stopped"
    /\ c_recv = 0

NextChannels ==
    \/ ScanCommitsNext
    \/ ScanCommitsSend
    \/ ChunksNext
    \/ ChunksSend
    \/ handleChunksSelect
    \/ handleChunksSend
    \/ CancelCtx
    \/ ConsumerReceive
    \/ ConsumerStop

----------------------------------------------------------------------------
(* Scan functions over units: s3 scanBuckets, scanRepos, docker Chunks     *)

\* The buckets, repos or images of one scan, at most.
MaxSourceUnits == 3

Sources == {"scanBuckets", "scanRepos", "Chunks"}

\* What the environment makes of a unit: for a bucket, the regional client
\* or the listing fails; for a repo, its URL is empty, or the clone or the
\* scan fails; for an image, the image, a layer or a file cannot be read.
UnitOutcomes(src) ==
    CASE src = "scanBuckets" -> {"ok", "clientErr", "listErr"}
      [] src = "scanRepos" -> {"ok", "empty", "cloneErr", "scanErr"}
      [] src = "Chunks" -> {"ok", "imageErr", "layerErr", "fileErr"}

UnitSeqs(src) ==
    UNION {[1..n -> UnitOutcomes(src)] : n \in 0..MaxSourceUnits}

LogUnit(what) == Append(u_log, [unit |-> u_i, what |-> what])

\* scanBuckets, one turn of the loop over bucketsToScan. midway: ctx is
\* cancelled while the jobs of a page run, a job marks workerSignal and the
\* check after the listing returns ctx.Err().
ScanBucketsStep ==
    /\ u_src = "scanBuckets" /\ u_pc = "running" /\ u_i <= Len(u_units)
    /\ \E midway \in BOOLEAN :
        IF u_ctx
        THEN /\ ~midway
             /\ u_pc' = "returned" /\ u_ret' = "ctx.Err"
             /\ UNCHANGED <<u_i, u_log, u_errs, u_ctx>>
        ELSE CASE u_units[u_i] = "clientErr" ->
                    /\ ~midway
                    /\ u_log' = LogUnit("error") /\ u_errs' = u_errs + 1
                    /\ u_i' = u_i + 1
                    /\ UNCHANGED <<u_pc, u_ret, u_ctx>>
               [] u_units[u_i] = "listErr" ->
                    IF midway
                    THEN /\ u_ctx' = TRUE
                         /\ u_pc' = "returned" /\ u_ret' = "ctx.Err"
                         /\ u_log' = LogUnit("cancelled")
                         /\ UNCHANGED <<u_i, u_errs>>
                    ELSE /\ u_log' = LogUnit("error") /\ u_errs' = u_errs + 1
                         /\ u_i' = u_i + 1
                         /\ UNCHANGED <<u_pc, u_ret, u_ctx>>
               [] u_units[u_i] = "ok" ->
                    IF midway
                    THEN /\ u_ctx' = TRUE
                         /\ u_pc' = "returned" /\ u_ret' = "ctx.Err"
                         /\ u_log' = LogUnit("cancelled")
                         /\ UNCHANGED <<u_i, u_errs>>
                    ELSE /\ u_log' = LogUnit("scanned")
                         /\ u_i' = u_i + 1
                         /\ UNCHANGED <<u_pc, u_ret, u_ctx, u_errs>>
    /\ UNCHANGED <<u_src, u_units>>
    /\ u_frame

\* scanBuckets after the loop: SetProgressComplete, return nil.
ScanBucketsReturn ==
    /\ u_src = "scanBuckets" /\ u_pc = "running" /\ u_i > Len(u_units)
    /\ u_pc' = "returned" /\ u_ret' = "nil"
    /\ UNCHANGED <<u_src, u_units, u_i, u_ctx, u_log, u_errs>>
    /\ u_frame

\* scanRepos, the job of one repo: skipped when ctx is done or the URL is
\* empty, scanErrs.Add when the clone or the scan fails.
ScanReposJob ==
    /\ u_src = "scanRepos" /\ u_pc = "running" /\ u_i <= Len(u_units)
    /\ IF u_ctx
       THEN u_log' = LogUnit("cancelled") /\ UNCHANGED u_errs
       ELSE CASE u_units[u_i] = "empty" ->
                    u_log' = LogUnit("skipped") /\ UNCHANGED u_errs
              [] u_units[u_i] \in {"cloneErr", "scanErr"} ->
                    u_log' = LogUnit("error") /\ u_errs' = u_errs + 1
              [] u_units[u_i] = "ok" ->
                    u_log' = LogUnit("scanned") /\ UNCHANGED u_errs
    /\ u_i' = u_i + 1
    /\ UNCHANGED <<u_src, u_units, u_ctx, u_pc, u_ret>>
    /\ u_frame

\* scanRepos after s.jobPool.Wait(): the errors are logged, return nil.
ScanReposReturn ==
    /\ u_src = "scanRepos" /\ u_pc = "running" /\ u_i > Len(u_units)
    /\ u_pc' = "returned" /\ u_ret' = "nil"
    /\ UNCHANGED <<u_src, u_units, u_i, u_ctx, u_log, u_errs>>
    /\ u_frame

\* docker Chunks, one turn of the loop over the images: every error of the
\* image, of one of its layers or of one of its files is returned at once.
\* ctx is not looked at.
DockerImageStep ==
    /\ u_src = "Chunks" /\ u_pc = "running" /\ u_i <= Len(u_units)
    /\ IF u_units[u_i] = "ok"
       THEN /\ u_log' = LogUnit("scanned")
            /\ u_i' = u_i + 1
            /\ UNCHANGED <<u_pc, u_ret>>
       ELSE /\ u_pc' = "returned" /\ u_ret' = "err"
            /\ u_log' = LogUnit("error")
            /\ UNCHANGED u_i
    /\ UNCHANGED <<u_src, u_units, u_ctx, u_errs>>
    /\ u_frame

\* docker Chunks after the loop: return nil.
DockerReturn ==
    /\ u_src = "Chunks" /\ u_pc = "running" /\ u_i > Len(u_units)
    /\ u_pc' = "returned" /\ u_ret' = "nil"
    /\ UNCHANGED <<u_src, u_units, u_i, u_ctx, u_log, u_errs>>
    /\ u_frame

\* The scan is cancelled between two steps of the scan function.
CancelScan ==
    /\ u_pc = "running" /\ ~u_ctx
    /\ u_ctx' = TRUE
    /\ UNCHANGED <<u_src, u_units, u_i, u_pc, u_ret, u_log, u_errs>>
    /\ u_frame

InitSources ==
    /\ u_src \in Sources
    /\ u_units \in UnitSeqs(u_src)
    /\ u_i = 1
    /\ u_ctx = FALSE
    /\ u_pc = "running"
    /\ u_ret = "nil"
    /\ u_log = <<>>
    /\ u_errs = 0

IdleSources ==
    /\ u_src = "Chunks"
    /\ u_units = <<>>
    /\ u_i = 1
    /\ u_ctx = FALSE
    /\ u_pc = "returned"
    /\ u_ret = "nil"
    /\ u_log = <<>>
    /\ u_errs = 0

NextSources ==
    \/ ScanBucketsStep
    \/ ScanBucketsReturn
    \/ ScanReposJob
    \/ ScanReposReturn
    \/ DockerImageStep
    \/ DockerReturn
    \/ CancelScan

----------------------------------------------------------------------------
(* s3 pageChunker: the jobs of one page on s.jobPool                       *)

\* The objects of the page (all under one prefix), and the largest limit of
\* the job pool.
MaxObjects == 5
MaxConcurrency == 2

\* A prefix with more errors than this is excluded.
maxPrefixErrors == 3

NoJob == [pc |-> "idle", nErr |-> 0]

Running == {i \in DOMAIN p_jobs : p_jobs[i].pc \notin {"idle", "done"}}

\* pageChunker, the loop: s.jobPool.Go(func() error {...}) starts the job of
\* the next object as soon as the pool has a free slot.
PageChunkerGo ==
    /\ p_pc = "running"
    /\ p_next <= Len(p_objs)
    /\ Cardinality(Running) < p_N
    /\ p_jobs' = [p_jobs EXCEPT ![p_next].pc = "check"]
    /\ p_next' = p_next + 1
    /\ UNCHANGED <<p_N, p_objs, p_errorCount, p_emitted, p_pc>>
    /\ p_frame

\* The job: state.errorCount.Load(prefix); skipped when nErr > 3.
JobCheck ==
    \E i \in DOMAIN p_jobs :
        /\ p_jobs[i].pc = "check"
        /\ p_jobs' = [p_jobs EXCEPT ![i].pc =
                          IF p_errorCount > maxPrefixErrors THEN "done" ELSE "get"]
        /\ UNCHANGED <<p_N, p_objs, p_next, p_errorCount, p_emitted, p_pc>>
        /\ p_frame

\* The job: GetObjectWithContext.
JobGetObject ==
    \E i \in DOMAIN p_jobs :
        /\ p_jobs[i].pc = "get"
        /\ p_jobs' = [p_jobs EXCEPT ![i].pc =
                          IF p_objs[i] = "err" THEN "errLoad" ELSE "handle"]
        /\ UNCHANGED <<p_N, p_objs, p_next, p_errorCount, p_emitted, p_pc>>
        /\ p_frame

\* The job, GetObject failed: state.errorCount.Load(prefix), return when
\* nErr > 3, else nErr = nErr + 1.
JobErrLoad ==
    \E i \in DOMAIN p_jobs :
        /\ p_jobs[i].pc = "errLoad"
        /\ p_jobs' = [p_jobs EXCEPT ![i] =
                          IF p_errorCount > maxPrefixErrors
                          THEN [pc |-> "done", nErr |-> 0]
                          ELSE [pc |-> "errStore", nErr |-> p_errorCount + 1]]
        /\ UNCHANGED <<p_N, p_objs, p_next, p_errorCount, p_emitted, p_pc>>
        /\ p_frame

\* The job, GetObject failed: state.errorCount.Store(prefix, nErr).
JobErrStore ==
    \E i \in DOMAIN p_jobs :
        /\ p_jobs[i].pc = "errStore"
        /\ p_errorCount' = p_jobs[i].nErr
        /\ p_jobs' = [p_jobs EXCEPT ![i] = [pc |-> "done", nErr |-> 0]]
        /\ UNCHANGED <<p_N, p_objs, p_next, p_emitted, p_pc>>
        /\ p_frame

\* The job: handlers.HandleFile sends the chunks of the object.
JobHandleFile ==
    \E i \in DOMAIN p_jobs :
        /\ p_jobs[i].pc = "handle"
        /\ p_emitted' = p_emitted \cup {i}
        /\ p_jobs' = [p_jobs EXCEPT ![i].pc = "resetLoad"]
        /\ UNCHANGED <<p_N, p_objs, p_next, p_errorCount, p_pc>>
        /\ p_frame

\* The job, after the object was handled: state.errorCount.Load(prefix).
JobResetLoad ==
    \E i \in DOMAIN p_jobs :
        /\ p_jobs[i].pc = "resetLoad"
        /\ p_jobs' = [p_jobs EXCEPT ![i].pc =
                          IF p_errorCount > 0 THEN "resetStore" ELSE "done"]
        /\ UNCHANGED <<p_N, p_objs, p_next, p_errorCount, p_emitted, p_pc>>
        /\ p_frame

\* The job, after the object was handled: state.errorCount.Store(prefix, 0).
JobResetStore ==
    \E i \in DOMAIN p_jobs :
        /\ p_jobs[i].pc = "resetStore"
        /\ p_errorCount' = 0
        /\ p_jobs' = [p_jobs EXCEPT ![i].pc = "done"]
        /\ UNCHANGED <<p_N, p_objs, p_next, p_emitted, p_pc>>
        /\ p_frame

\* pageChunker: _ = s.jobPool.Wait()
PageChunkerWait ==
    /\ p_pc = "running"
    /\ p_next > Len(p_objs)
    /\ Running = {}
    /\ p_pc' = "returned"
    /\ UNCHANGED <<p_N, p_objs, p_next, p_jobs, p_errorCount, p_emitted>>
    /\ p_frame

InitPage ==
    /\ p_N \in 1..MaxConcurrency
    /\ p_objs \in [1..MaxObjects -> {"ok", "err"}]
    /\ p_next = 1
    /\ p_jobs = [i \in 1..MaxObjects |-> NoJob]
    /\ p_errorCount = 0
    /\ p_emitted = {}
    /\ p_pc = "running"

IdlePage ==
    /\ p_N = 1
    /\ p_objs = <<>>
    /\ p_next = 1
    /\ p_jobs = <<>>
    /\ p_errorCount = 0
    /\ p_emitted = {}
    /\ p_pc = "returned"

NextPage ==
    \/ PageChunkerGo
    \/ JobCheck
    \/ JobGetObject
    \/ JobErrLoad
    \/ JobErrStore
    \/ JobHandleFile
    \/ JobResetLoad
    \/ JobResetStore
    \/ PageChunkerWait

----------------------------------------------------------------------------
(* rpmHandler: the goroutine of HandleFile, and processRPMFiles            *)

\* The files in the payload of the archive, at most.
MaxRpmFiles == 3

\* What ends the processing of one file: its content is sent ("ok"),
\* handleNonArchiveContent fails ("contentErr"), newMimeTypeReader fails on
\* the file ("mimeErr"), reader.Next fails on the payload ("nextErr"), or
\* the library panics while it extracts the file ("panic").
FileOutcomes == {"ok", "contentErr", "mimeErr", "nextErr", "panic"}

\* What ReadRpm and PayloadReaderExtended end with.
OpenOutcomes == {"ok", "readErr", "payloadErr", "panic"}

\* An entry of dataOrErrChan: data, or an error wrapping ErrProcessingFatal
\* or ErrProcessingWarning. file: the file of the payload it is about (0:
\* the archive).
DataOrErr(kind, file) == [kind |-> kind, file |-> file]

\* The deferred recover of HandleFile: the panic is sent wrapped in
\* ErrProcessingFatal; then the deferred close(dataOrErrChan).
Recovered(file) ==
    /\ r_out' = Append(r_out, DataOrErr("fatal", file))
    /\ r_pc' = "closed"
    /\ r_err' = "panic"

\* HandleFile's goroutine: rpmutils.ReadRpm and rpm.PayloadReaderExtended.
RpmOpen ==
    /\ r_pc = "open"
    /\ CASE r_open = "ok" ->
                r_pc' = "files" /\ UNCHANGED <<r_out, r_err>>
         [] r_open \in {"readErr", "payloadErr"} ->
                /\ r_out' = Append(r_out, DataOrErr("fatal", 0))
                /\ r_pc' = "closed"
                /\ r_err' = r_open
         [] r_open = "panic" -> Recovered(0)
    /\ UNCHANGED <<r_open, r_files, r_i, r_ctx, r_metrics>>
    /\ r_frame

\* processRPMFiles, one turn of the loop: ctx.Done(), or reader.Next,
\* newMimeTypeReader and handleNonArchiveContent on the next file.
ProcessRPMFile ==
    /\ r_pc = "files"
    /\ IF r_ctx
       THEN /\ r_err' = "ctx.Err" /\ r_pc' = "finish"
            /\ UNCHANGED <<r_i, r_out, r_metrics>>
       ELSE IF r_i > Len(r_files)
       THEN /\ r_err' = "nil" /\ r_pc' = "finish"
            /\ UNCHANGED <<r_i, r_out, r_metrics>>
       ELSE CASE r_files[r_i] = "nextErr" ->
                    /\ r_err' = "payload" /\ r_pc' = "finish"
                    /\ UNCHANGED <<r_i, r_out, r_metrics>>
              [] r_files[r_i] = "mimeErr" ->
                    /\ r_err' = "mime" /\ r_pc' = "finish"
                    /\ UNCHANGED <<r_i, r_out, r_metrics>>
              [] r_files[r_i] = "panic" ->
                    /\ Recovered(r_i)
                    /\ UNCHANGED <<r_i, r_metrics>>
              [] r_files[r_i] = "contentErr" ->
                    /\ r_out' = Append(r_out, DataOrErr("warning", r_i))
                    /\ r_metrics' = [r_metrics EXCEPT !.errors = @ + 1,
                                                      !.filesProcessed = @ + 1]
                    /\ r_i' = r_i + 1
                    /\ UNCHANGED <<r_pc, r_err>>
              [] r_files[r_i] = "ok" ->
                    /\ r_out' = Append(r_out, DataOrErr("data", r_i))
                    /\ r_metrics' = [r_metrics EXCEPT !.filesProcessed = @ + 1]
                    /\ r_i' = r_i + 1
                    /\ UNCHANGED <<r_pc, r_err>>
    /\ UNCHANGED <<r_open, r_files, r_ctx>>
    /\ r_frame

\* defaultHandler.measureLatencyAndHandleErrors: every error is counted.
measureLatencyAndHandleErrors(metrics, err) ==
    IF err = "nil" THEN metrics ELSE [metrics EXCEPT !.errors = @ + 1]

\* HandleFile's goroutine after processRPMFiles: incFilesProcessed when it
\* returned nil, measureLatencyAndHandleErrors, close(dataOrErrChan).
RpmFinish ==
    /\ r_pc = "finish"
    /\ r_metrics' = measureLatencyAndHandleErrors(
                        IF r_err = "nil"
                        THEN [r_metrics EXCEPT !.filesProcessed = @ + 1]
                        ELSE r_metrics, r_err)
    /\ r_pc' = "closed"
    /\ UNCHANGED <<r_open, r_files, r_i, r_ctx, r_err, r_out>>
    /\ r_frame

\* The scan is cancelled while the archive is extracted.
RpmCancel ==
    /\ r_pc \in {"open", "files"} /\ ~r_ctx
    /\ r_ctx' = TRUE
    /\ UNCHANGED <<r_pc, r_open, r_files, r_i, r_err, r_out, r_metrics>>
    /\ r_frame

InitRpm ==
    /\ r_pc = "open"
    /\ r_open \in OpenOutcomes
    /\ r_files \in UNION {[1..n -> FileOutcomes] : n \in 0..MaxRpmFiles}
    /\ r_i = 1
    /\ r_ctx = FALSE
    /\ r_err = "nil"
    /\ r_out = <<>>
    /\ r_metrics = [errors |-> 0, filesProcessed |-> 0]

IdleRpm ==
    /\ r_pc = "closed"
    /\ r_open = "ok"
    /\ r_files = <<>>
    /\ r_i = 1
    /\ r_ctx = FALSE
    /\ r_err = "nil"
    /\ r_out = <<>>
    /\ r_metrics = [errors |-> 0, filesProcessed |-> 0]

NextRpm ==
    \/ RpmOpen
    \/ ProcessRPMFile
    \/ RpmFinish
    \/ RpmCancel

\* The parts added after the first five, idle.
----------------------------------------------------------------------------
(* run and runSingleScan: the concurrency handed to the engine and to the  *)
(* source manager                                                          *)

\* The largest value of --concurrency.
MaxConcurrencyFlag == 4

\* The scan commands; --since-commit is a flag of the git command only.
Commands == {"git", "github", "gitlab"}

\* A faulty variant of pinConcurrency: the base commit is not looked at.
pinConcurrency_never(sinceCommit, concurrency) == concurrency

\* run: if *gitScanSinceCommit != "" { *concurrency = 1 }
pinConcurrency(sinceCommit, concurrency) ==
    IF sinceCommit # "" THEN 1 ELSE concurrency

\* run: the flags are parsed; the base commit pins *concurrency.
RunPin ==
    /\ k_pc = "flags"
    /\ k_flags' = [k_flags EXCEPT
                      !.concurrency = pinConcurrency(k_flags.sinceCommit, @)]
    /\ k_pc' = "pinned"
    /\ UNCHANGED <<k_given, k_engConf, k_mgr>>
    /\ k_frame

\* run: engConf := engine.Config{Concurrency: *concurrency, ...}
RunEngConf ==
    /\ k_pc = "pinned"
    /\ k_engConf' = k_flags.concurrency
    /\ k_pc' = "conf"
    /\ UNCHANGED <<k_flags, k_given, k_mgr>>
    /\ k_frame

\* runSingleScan: sources.WithConcurrentSources(cfg.Concurrency),
\* sources.WithConcurrentUnits(cfg.Concurrency); compareScans calls
\* runSingleScan twice with the same cfg, each call builds one manager.
RunSingleScanManager ==
    /\ k_pc = "conf"
    /\ Len(k_mgr) < (IF k_flags.compare THEN 2 ELSE 1)
    /\ k_mgr' = Append(k_mgr, [sources |-> k_engConf, units |-> k_engConf])
    /\ UNCHANGED <<k_pc, k_flags, k_given, k_engConf>>
    /\ k_frame

InitConfig ==
    /\ k_pc = "flags"
    /\ k_flags \in {f \in [cmd : Commands,
                            concurrency : 1..MaxConcurrencyFlag,
                            sinceCommit : {"", "c0ffee"},
                            compare : BOOLEAN] :
                        f.sinceCommit # "" => f.cmd = "git"}
    /\ k_given = k_flags.concurrency
    /\ k_engConf = 0
    /\ k_mgr = <<>>

IdleConfig ==
    /\ k_pc = "conf"
    /\ k_flags = [cmd |-> "git", concurrency |-> 1, sinceCommit |-> "", compare |-> FALSE]
    /\ k_given = 1
    /\ k_engConf = 1
    /\ k_mgr = <<[sources |-> 1, units |-> 1]>>

NextConfig ==
    \/ RunPin
    \/ RunEngConf
    \/ RunSingleScanManager

----------------------------------------------------------------------------
(* The engine: verification overlap between the detectors of one chunk.    *)
(* The engine's worker is not part of the sources at hand; its tests are,  *)
(* and the model takes the detectors and the expected counts from them.    *)

\* fakeDetectorV1 and fakeDetectorV2: one type, versions 1 and 2, each
\* FromData returns one result with its own Raw.
fakeDetectors ==
    << [type |-> "fake", version |-> 1, name |-> "fakeDetectorV1",
        raws |-> {"fake secret v1"}],
       [type |-> "fake", version |-> 2, name |-> "fakeDetectorV2",
        raws |-> {"fake secret v2"}] >>

\* TestEngine_CustomDetectorsDetectorsVerifiedSecrets: two custom detectors
\* with the same keywords and regex \w+ scan the file "test stuff".
customDetectors ==
    << [type |-> "CustomRegex", version |-> 0, name |-> "custom detector 1",
        raws |-> {"test", "stuff"}],
       [type |-> "CustomRegex", version |-> 0, name |-> "custom detector 2",
        raws |-> {"test", "stuff"}] >>

OverlapTests == {"versioned", "custom"}

TestDetectors(test) == IF test = "versioned" THEN fakeDetectors ELSE customDetectors

\* A faulty variant of TestWant: one verified result for each raw.
TestWant_onePerRaw(test) == 2

\* The tests' want for GetMetrics().VerifiedSecretsFound.
TestWant(test) == IF test = "versioned" THEN 2 ELSE 4

\* All the results <<detector, raw>> the detectors of a test produce on the
\* chunk.
ChunkResults(test) ==
    UNION {{<<d, raw>> : raw \in TestDetectors(test)[d].raws} :
               d \in DOMAIN TestDetectors(test)}

\* The engine's overlap pass: a result overlaps when a detector of another
\* type claims the same raw from the chunk; it is then not verified.
verificationOverlap(dets, d, raw) ==
    \E o \in DOMAIN dets : dets[o].type # dets[d].type /\ raw \in dets[o].raws

\* The engine takes one more result of the chunk, verifies it unless it
\* overlaps, and Finish returns after the last one.
EngineResult ==
    \E res \in ChunkResults(o_test) \ o_done :
        /\ e_part = "overlap"
        /\ o_pc = "scanning"
        /\ o_done' = o_done \cup {res}
        /\ o_verified' =
               IF verificationOverlap(TestDetectors(o_test), res[1], res[2])
               THEN o_verified
               ELSE o_verified \cup {res}
        /\ o_pc' = IF o_done' = ChunkResults(o_test) THEN "finished" ELSE "scanning"
        /\ UNCHANGED <<e_part, o_test, o_pass, v_vars, q_vars>>
        /\ e_frame

\* The test: assert.Equal(t, want, e.GetMetrics().VerifiedSecretsFound)
TestAssert ==
    /\ e_part = "overlap"
    /\ o_pc = "finished"
    /\ o_pass' = (Cardinality(o_verified) = TestWant(o_test))
    /\ o_pc' = "asserted"
    /\ UNCHANGED <<e_part, o_test, o_done, o_verified, v_vars, q_vars>>
    /\ e_frame

InitOverlap ==
    /\ o_test \in OverlapTests
    /\ o_done = {}
    /\ o_verified = {}
    /\ o_pc = "scanning"
    /\ o_pass = FALSE

IdleOverlap ==
    /\ o_test = "versioned"
    /\ o_done = {}
    /\ o_verified = {}
    /\ o_pc = "asserted"
    /\ o_pass = FALSE

----------------------------------------------------------------------------
(* The engine: shouldVerifyChunk and the detector override map.  The       *)
(* function is modelled from the specification, its test cases from the    *)
(* test in the sources.                                                    *)

\* The largest version of a detector, and the entries of an override map.
MaxVersion == 2
MaxOverrides == 2

DetectorTypes == {"Gitlab", "NpmToken"}

\* config.DetectorID{ID, Version}
DetectorIDs == [type : DetectorTypes, version : 0..MaxVersion]

\* map[config.DetectorID]bool with at most MaxOverrides entries
OverrideMaps ==
    UNION {[D -> BOOLEAN] : D \in {D \in SUBSET DetectorIDs : Cardinality(D) <= MaxOverrides}}

\* Engine.shouldVerifyChunk of an engine with verify = true: the override
\* for the detector's exact version, else the override for version 0, else
\* the source's verify flag.
shouldVerifyChunk(sourceVerify, detector, overrides) ==
    LET versionless == [detector EXCEPT !.version = 0]
    IN  IF detector \in DOMAIN overrides THEN overrides[detector]
        ELSE IF versionless \in DOMAIN overrides THEN overrides[versionless]
        ELSE sourceVerify

\* The detector of the test cases: &gitlab.Scanner{}, whose version is 2.
gitlabScanner == [type |-> "Gitlab", version |-> 2]

\* TestEngine_ShouldVerifyChunk: the overrideKey of each case.
overrideKey(name) ==
    CASE name = "detector override by exact version" -> [type |-> "Gitlab", version |-> 2]
      [] name = "detector override by versionless config" -> [type |-> "Gitlab", version |-> 0]
      [] name = "no detector override because of detector type mismatch" -> [type |-> "NpmToken", version |-> 2]
      [] name = "no detector override because of detector version mismatch" -> [type |-> "Gitlab", version |-> 1]

ShouldVerifyChunkTests ==
    {"detector override by exact version", "detector override by versionless config", "no detector override because of detector type mismatch",
     "no detector override because of detector version mismatch"}

\* A faulty variant of want: a version mismatch is expected to override.
want_anyVersion(name, sourceVerify, detectorVerify) ==
    IF name = "no detector override because of detector type mismatch" THEN sourceVerify ELSE detectorVerify

\* TestEngine_ShouldVerifyChunk: the want of each case.
want(name, sourceVerify, detectorVerify) ==
    IF name \in {"detector override by exact version", "detector override by versionless config"}
    THEN detectorVerify
    ELSE sourceVerify

\* The call of shouldVerifyChunk returns.
CallShouldVerifyChunk ==
    /\ e_part = "verify"
    /\ v_pc = "call"
    /\ v_got' = shouldVerifyChunk(v_in.sourceVerify, v_in.detector, v_in.overrides)
    /\ v_pc' = "returned"
    /\ UNCHANGED <<e_part, o_vars, q_vars, v_in, v_want>>
    /\ e_frame

\* The arguments of one call: those of a case of the test, with what the
\* case wants, or any detector, override map and verify flag.
InitVerify ==
    /\ v_pc = "call"
    /\ v_got = FALSE
    /\ \/ \E name \in ShouldVerifyChunkTests, sourceVerify, detectorVerify \in BOOLEAN :
             /\ v_in = [test |-> name,
                        sourceVerify |-> sourceVerify,
                        detector |-> gitlabScanner,
                        overrides |-> [k \in {overrideKey(name)} |-> detectorVerify]]
             /\ v_want = want(name, sourceVerify, detectorVerify)
       \/ /\ v_in \in [test : {"none"},
                       sourceVerify : BOOLEAN,
                       detector : DetectorIDs,
                       overrides : OverrideMaps]
          /\ v_want = FALSE

IdleVerify ==
    /\ v_pc = "returned"
    /\ v_got = FALSE
    /\ v_in = [test |-> "none", sourceVerify |-> FALSE, detector |-> gitlabScanner,
               overrides |-> [k \in {} |-> FALSE]]
    /\ v_want = FALSE

----------------------------------------------------------------------------
(* The engine: duplicates among the findings of one chunk.  The functions  *)
(* are modelled from the specification, the test cases from the test in    *)
(* the sources.  A raw is the sequence of its characters.                  *)

\* The longest raw and the number of stored findings that are enumerated.
MaxRawLen == 2
MaxStored == 2

\* The raws of TestLikelyDuplicate.
rawPMAK ==
    <<"P", "M", "A", "K", "-", "q", "n", "w", "f", "s", "L", "y", "R", "S",
      "y", "f", "C", "w", "f", "p", "H", "a", "Q", "P", "1", "U", "z", "D",
      "h", "r", "g", "p", "W", "v", "H", "j", "b", "Y", "z", "j", "p", "R",
      "C", "M", "s", "h", "j", "t", "4", "1", "7", "z", "W", "c", "r", "z",
      "y", "H", "U", "A", "r", "s", "7", "r">>

rawNoPrefix ==
    <<"q", "n", "w", "f", "s", "L", "y", "R", "S", "y", "f", "C", "w", "f",
      "p", "H", "a", "Q", "P", "1", "U", "z", "D", "h", "r", "g", "p", "W",
      "v", "H", "j", "b", "Y", "z", "j", "p", "R", "C", "M", "s", "h", "j",
      "t", "4", "1", "7", "z", "W", "c", "r", "z", "y", "H", "U", "A", "r",
      "s", "7", "r">>

rawShort == <<"s", "h", "o", "r", "t">>

rawMuchLonger ==
    <<"m", "u", "c", "h", "l", "o", "n", "g", "e", "r", "t", "h", "a", "n",
      "t", "h", "e", "v", "a", "l", "s", "t", "r", "i", "n", "g">>

rawAnotherKey == <<"a", "n", "o", "t", "h", "e", "r", "k", "e", "y">>

rawCompletelyDifferent ==
    <<"c", "o", "m", "p", "l", "e", "t", "e", "l", "y", "d", "i", "f", "f",
      "e", "r", "e", "n", "t">>

\* The keys of detectorA and detectorB, DefaultDetectors()[0] and [1].
DetectorKeys == {"A", "B"}

\* The raws that are enumerated: up to MaxRawLen characters of two.
Raws == UNION {[1..n -> {"a", "b"}] : n \in 0..MaxRawLen}

\* chunkSecretKey{secret, detectorKey}
ChunkSecretKeys == [secret : Raws, key : DetectorKeys]

\* The largest difference in length of two raws that count as similar.
maxLenDiff == 5

IsSubstring(a, b) ==
    \E i \in 0..(Len(b) - Len(a)) : SubSeq(b, i + 1, i + Len(a)) = a

\* Two raws within the bounded distance: their lengths differ by at most
\* maxLenDiff and one is a substring of the other.
Similar(a, b) ==
    /\ (IF Len(a) > Len(b) THEN Len(a) - Len(b) ELSE Len(b) - Len(a)) <= maxLenDiff
    /\ (IsSubstring(a, b) \/ IsSubstring(b, a))

\* likelyDuplicate(ctx, val, dupes): a stored key of another detector whose
\* secret is equal or similar; the stored keys of val's own detector are
\* skipped.
likelyDuplicate(val, dupes) ==
    \E k \in dupes :
        /\ k.key # val.key
        /\ (k.secret = val.secret \/ Similar(val.secret, k.secret))

\* The candidate is a duplicate within the chunk's fan-out: its key is
\* stored already, or likelyDuplicate says so.
isDuplicate(val, dupes) == val \in dupes \/ likelyDuplicate(val, dupes)

LikelyDuplicateTests ==
    {"exact duplicate different detector", "non-duplicate length outside range",
     "similar within threshold", "similar outside threshold", "empty strings",
     "similar within threshold same detector"}

\* TestLikelyDuplicate: val and dupes of each case.
testVal(name) ==
    CASE name = "exact duplicate different detector" -> [secret |-> rawPMAK, key |-> "A"]
      [] name = "non-duplicate length outside range" -> [secret |-> rawShort, key |-> "A"]
      [] name = "similar within threshold" -> [secret |-> rawPMAK, key |-> "A"]
      [] name = "similar outside threshold" -> [secret |-> rawAnotherKey, key |-> "A"]
      [] name = "empty strings" -> [secret |-> <<>>, key |-> "A"]
      [] name = "similar within threshold same detector" -> [secret |-> rawPMAK, key |-> "A"]

testDupes(name) ==
    CASE name = "exact duplicate different detector" -> {[secret |-> rawPMAK, key |-> "B"]}
      [] name = "non-duplicate length outside range" -> {[secret |-> rawMuchLonger, key |-> "B"]}
      [] name = "similar within threshold" -> {[secret |-> rawNoPrefix, key |-> "B"]}
      [] name = "similar outside threshold" -> {[secret |-> rawCompletelyDifferent, key |-> "B"]}
      [] name = "empty strings" -> {[secret |-> <<>>, key |-> "B"]}
      [] name = "similar within threshold same detector" -> {[secret |-> rawNoPrefix, key |-> "A"]}

\* A faulty variant of expected: the case of the same detector expects true.
expected_sameDetector(name) ==
    name \in {"exact duplicate different detector", "similar within threshold",
              "empty strings", "similar within threshold same detector"}

\* TestLikelyDuplicate: expected of each case.
expected(name) ==
    name \in {"exact duplicate different detector", "similar within threshold",
              "empty strings"}

\* The engine looks the candidate up among the stored keys of the chunk and
\* calls likelyDuplicate.
CallLikelyDuplicate ==
    /\ e_part = "duplicate"
    /\ q_pc = "call"
    /\ q_got' = [likely |-> likelyDuplicate(q_in.val, q_in.dupes),
                 dup |-> isDuplicate(q_in.val, q_in.dupes)]
    /\ q_pc' = "returned"
    /\ UNCHANGED <<e_part, o_vars, v_vars, q_in, q_want>>
    /\ e_frame

InitDuplicate ==
    /\ q_pc = "call"
    /\ q_got = [likely |-> FALSE, dup |-> FALSE]
    /\ \/ \E name \in LikelyDuplicateTests :
             /\ q_in = [test |-> name, val |-> testVal(name), dupes |-> testDupes(name)]
             /\ q_want = expected(name)
       \/ /\ q_in \in [test : {"none"},
                       val : ChunkSecretKeys,
                       dupes : {D \in SUBSET ChunkSecretKeys : Cardinality(D) <= MaxStored}]
          /\ q_want = FALSE

IdleDuplicate ==
    /\ q_pc = "returned"
    /\ q_got = [likely |-> FALSE, dup |-> FALSE]
    /\ q_in = [test |-> "none", val |-> [secret |-> <<>>, key |-> "A"], dupes |-> {}]
    /\ q_want = FALSE

\* One part of the engine is exercised, the other two are idle.
InitEngine ==
    \/ e_part = "overlap" /\ InitOverlap /\ IdleVerify /\ IdleDuplicate
    \/ e_part = "verify" /\ IdleOverlap /\ InitVerify /\ IdleDuplicate
    \/ e_part = "duplicate" /\ IdleOverlap /\ IdleVerify /\ InitDuplicate

IdleEngine == e_part = "none" /\ IdleOverlap /\ IdleVerify /\ IdleDuplicate

NextEngine ==
    \/ EngineResult
    \/ TestAssert
    \/ CallShouldVerifyChunk
    \/ CallLikelyDuplicate

----------------------------------------------------------------------------
(* handlers.HandleFile and handleChunks: the handler's goroutine sends the *)
(* data on handlerChan and closes it; handleChunks forwards it as chunks.  *)

\* The data items a handler produces for one file.
MaxItems == 2

\* The buffer of chunksChan.
ReporterCap == 2

\* What HandleSpecialized and IsFiletype say of the file: a specialized
\* archive, a file type of the handler, or neither.
FileKinds == {"special", "filetype", "unknown"}

\* HandleFile: the handler is chosen; without one it returns false.
HandleFileEnter ==
    /\ h_pc = "start"
    /\ IF h_in.kind = "unknown"
       THEN h_pc' = "returned" /\ h_ret' = "false"
       ELSE h_pc' = "select" /\ h_ret' = h_ret
    /\ UNCHANGED <<h_in, h_ctx, h_left, h_chan, h_out, h_sent>>
    /\ h_frame

\* The goroutine of FromFile offers its next item on handlerChan.
HandlerOffer ==
    /\ h_pc \in {"select", "send"}
    /\ h_chan = "empty"
    /\ h_left > 0
    /\ h_left' = h_left - 1
    /\ h_chan' = "offer"
    /\ UNCHANGED <<h_pc, h_in, h_ctx, h_out, h_ret, h_sent>>
    /\ h_frame

\* The goroutine of FromFile closes handlerChan: at the end of the file, or
\* earlier when it finds ctx cancelled.
HandlerClose ==
    /\ h_pc \in {"select", "send"}
    /\ h_chan = "empty"
    /\ h_left = 0 \/ h_ctx
    /\ h_chan' = "closed"
    /\ UNCHANGED <<h_pc, h_in, h_ctx, h_left, h_out, h_ret, h_sent>>
    /\ h_frame

\* handleChunks, the outer select: case data, open := <-handlerChan
handleChunksReceive ==
    /\ h_pc = "select"
    /\ h_chan \in {"offer", "closed"}
    /\ IF h_chan = "closed"
       THEN h_pc' = "returned" /\ h_ret' = "true" /\ h_chan' = h_chan
       ELSE h_pc' = "send" /\ h_ret' = h_ret /\ h_chan' = "empty"
    /\ UNCHANGED <<h_in, h_ctx, h_left, h_out, h_sent>>
    /\ h_frame

\* handleChunks, the outer select: case <-ctx.Done()
handleChunksDone ==
    /\ h_pc = "select"
    /\ h_ctx
    /\ h_pc' = "returned"
    /\ h_ret' = "false"
    /\ UNCHANGED <<h_in, h_ctx, h_left, h_chan, h_out, h_sent>>
    /\ h_frame

\* handleChunks, the inner select: case chunksChan <- &chunk
handleChunksForward ==
    /\ h_pc = "send"
    /\ h_out < ReporterCap
    /\ h_out' = h_out + 1
    /\ h_sent' = h_sent + 1
    /\ h_pc' = "select"
    /\ UNCHANGED <<h_in, h_ctx, h_left, h_chan, h_ret>>
    /\ h_frame

\* handleChunks, the inner select: case <-ctx.Done()
handleChunksForwardDone ==
    /\ h_pc = "send"
    /\ h_ctx
    /\ h_pc' = "returned"
    /\ h_ret' = "false"
    /\ UNCHANGED <<h_in, h_ctx, h_left, h_chan, h_out, h_sent>>
    /\ h_frame

\* The reader of chunksChan takes a chunk.
ReporterReceive ==
    /\ h_pc # "returned"
    /\ h_out > 0
    /\ h_out' = h_out - 1
    /\ UNCHANGED <<h_pc, h_in, h_ctx, h_left, h_chan, h_ret, h_sent>>
    /\ h_frame

\* The caller cancels ctx while HandleFile runs.
HandleFileCancel ==
    /\ h_pc # "returned"
    /\ ~h_ctx
    /\ h_ctx' = TRUE
    /\ UNCHANGED <<h_pc, h_in, h_left, h_chan, h_out, h_ret, h_sent>>
    /\ h_frame

InitHandleFile ==
    /\ h_in \in [cancelled : BOOLEAN, kind : FileKinds, items : 0..MaxItems,
                 buffered : 0..ReporterCap]
    /\ h_ctx = h_in.cancelled
    /\ h_left = h_in.items
    /\ h_out = h_in.buffered
    /\ h_chan = "empty"
    /\ h_pc = "start"
    /\ h_ret = "none"
    /\ h_sent = 0

IdleHandleFile ==
    /\ h_in = [cancelled |-> FALSE, kind |-> "unknown", items |-> 0, buffered |-> 0]
    /\ h_ctx = FALSE
    /\ h_left = 0
    /\ h_out = 0
    /\ h_chan = "empty"
    /\ h_pc = "returned"
    /\ h_ret = "false"
    /\ h_sent = 0

NextHandleFile ==
    \/ HandleFileEnter
    \/ HandlerOffer
    \/ HandlerClose
    \/ handleChunksReceive
    \/ handleChunksDone
    \/ handleChunksForward
    \/ handleChunksForwardDone
    \/ ReporterReceive
    \/ HandleFileCancel

----------------------------------------------------------------------------
(* The channel HandleFile returns: the goroutine of the default and of the *)
(* rpm handler sending on it and closing it, and the reader of the channel *)

\* The items one file yields, and the buffer of the returned channel.
MaxData == 2
DataChanCap == 1

Handlers == {"default", "rpm"}

\* rpmHandler.HandleFile up to processRPMFiles: ForceSkipArchives closes the
\* channel at once; ReadRpm or PayloadReaderExtended fail, or panic, and the
\* goroutine has a fatal error to send; else the files follow.
rpmGoOpen ==
    \E how \in {"ok", "err", "panic"} :
        /\ f_h = "rpm"
        /\ f_pc = "open"
        /\ f_pc' = CASE f_skip -> "close"
                     [] ~f_skip /\ how = "ok" -> "files"
                     [] OTHER -> "fatal"
        /\ UNCHANGED <<f_h, f_skip, f_left, f_buf, f_ctx, f_reader, f_hist>>
        /\ f_frame

\* processRPMFiles, one turn of the loop: ctx.Done(), the end of the payload
\* or an error of reader.Next or newMimeTypeReader end it; else
\* handleNonArchiveContent writes the file's data with CancellableWrite, or
\* fails (also because ctx is cancelled) and a warning is to be sent, or
\* panics.
rpmGoFile ==
    \E how \in {"done", "eof", "err", "write", "contentErr", "ctxErr", "panic"} :
        /\ f_h = "rpm"
        /\ f_pc = "files"
        /\ how = "done" => f_ctx
        /\ how = "eof" <=> f_left = 0
        /\ how = "write" => f_buf < DataChanCap
        /\ how = "ctxErr" => f_ctx
        /\ f_pc' = CASE how \in {"done", "eof", "err"} -> "finish"
                     [] how = "write" -> "files"
                     [] how \in {"contentErr", "ctxErr"} -> "warn"
                     [] how = "panic" -> "fatal"
        /\ f_left' = IF how \in {"write", "contentErr", "ctxErr"} THEN f_left - 1 ELSE f_left
        /\ f_buf' = IF how = "write" THEN f_buf + 1 ELSE f_buf
        /\ f_hist' = IF how = "write" THEN [f_hist EXCEPT !.sent = @ + 1] ELSE f_hist
        /\ UNCHANGED <<f_h, f_skip, f_ctx, f_reader>>
        /\ f_frame

\* dataOrErrChan <- DataOrErr{Err: ...}: the send of a warning in
\* processRPMFiles, of a fatal error in HandleFile or in its recover.
rpmGoSend ==
    /\ f_h = "rpm"
    /\ f_pc \in {"warn", "fatal"}
    /\ f_buf < DataChanCap
    /\ f_buf' = f_buf + 1
    /\ f_hist' = [f_hist EXCEPT !.sent = @ + 1]
    /\ f_pc' = IF f_pc = "warn" THEN "files" ELSE "close"
    /\ UNCHANGED <<f_h, f_skip, f_left, f_ctx, f_reader>>
    /\ f_frame

\* defaultHandler.HandleFile, handleNonArchiveContent: a chunk is written
\* with CancellableWrite, which fails when ctx is cancelled; a chunk with a
\* read error is skipped; the loop ends with the file; a panic runs the
\* deferred close.
defaultGoContent ==
    \E how \in {"eof", "write", "readErr", "ctxErr", "panic"} :
        /\ f_h = "default"
        /\ f_pc = "open"
        /\ how = "eof" <=> f_left = 0
        /\ how = "write" => f_buf < DataChanCap
        /\ how = "ctxErr" => f_ctx
        /\ f_pc' = IF how \in {"write", "readErr"} THEN "open" ELSE "close"
        /\ f_left' = IF how \in {"write", "readErr"} THEN f_left - 1 ELSE f_left
        /\ f_buf' = IF how = "write" THEN f_buf + 1 ELSE f_buf
        /\ f_hist' = IF how = "write" THEN [f_hist EXCEPT !.sent = @ + 1] ELSE f_hist
        /\ UNCHANGED <<f_h, f_skip, f_ctx, f_reader>>
        /\ f_frame

\* defer close(dataChan), defer close(dataOrErrChan); in the rpm handler
\* measureLatencyAndHandleErrors comes before it.
GoClose ==
    /\ f_pc \in {"finish", "close"}
    /\ f_pc' = "closed"
    /\ f_hist' = [f_hist EXCEPT !.closes = @ + 1, !.sentAtClose = f_hist.sent]
    /\ UNCHANGED <<f_h, f_skip, f_left, f_buf, f_ctx, f_reader>>
    /\ f_frame

\* The steps of the handler's goroutine.
GoStep == rpmGoOpen \/ rpmGoFile \/ rpmGoSend \/ defaultGoContent \/ GoClose

\* The reader of the returned channel takes an item.
DataReaderReceive ==
    /\ f_reader = "reading"
    /\ f_buf > 0
    /\ f_buf' = f_buf - 1
    /\ f_hist' = [f_hist EXCEPT !.received = @ + 1]
    /\ UNCHANGED <<f_h, f_skip, f_pc, f_left, f_ctx, f_reader>>
    /\ f_frame

\* The reader finds ctx cancelled and returns: it reads no more.
DataReaderStop ==
    /\ f_reader = "reading"
    /\ f_ctx
    /\ f_reader' = "stopped"
    /\ UNCHANGED <<f_h, f_skip, f_pc, f_left, f_buf, f_ctx, f_hist>>
    /\ f_frame

DataCancel ==
    /\ ~f_ctx
    /\ f_pc # "closed"
    /\ f_ctx' = TRUE
    /\ UNCHANGED <<f_h, f_skip, f_pc, f_left, f_buf, f_reader, f_hist>>
    /\ f_frame

InitDataChan ==
    /\ f_h \in Handlers
    /\ f_skip \in (IF f_h = "rpm" THEN BOOLEAN ELSE {FALSE})
    /\ f_pc = "open"
    /\ f_left \in 0..MaxData
    /\ f_buf = 0
    /\ f_ctx = FALSE
    /\ f_reader = "reading"
    /\ f_hist = [sent |-> 0, received |-> 0, closes |-> 0, sentAtClose |-> 0]

IdleDataChan ==
    /\ f_h = "default"
    /\ f_skip = FALSE
    /\ f_pc = "closed"
    /\ f_left = 0
    /\ f_buf = 0
    /\ f_ctx = FALSE
    /\ f_reader = "stopped"
    /\ f_hist = [sent |-> 0, received |-> 0, closes |-> 0, sentAtClose |-> 0]

NextDataChan ==
    \/ rpmGoOpen
    \/ rpmGoFile
    \/ rpmGoSend
    \/ defaultGoContent
    \/ GoClose
    \/ DataReaderReceive
    \/ DataReaderStop
    \/ DataCancel

----------------------------------------------------------------------------
(* Progress: gitlab's scanRepos, SetProgressComplete and GetProgress       *)

\* The repos of the source and the limit of s.jobPool. Repo i stands for the
\* i-th URL in string order; the scan starts without resume information, so
\* FilterReposToResume keeps every repo and the offset is 0.
MaxRepos == 2
JobPoolLimit == 2

\* The holder of a mutex is a job, 1..m_n, or scanRepos itself; the set of
\* the holders is empty when the mutex is unlocked.
Main == m_n + 1

\* The fields of Progress in the order SetProgressComplete assigns them.
ProgressFields ==
    <<"Message", "EncodedResumeInfo", "SectionsCompleted", "SectionsRemaining",
      "PercentComplete">>

\* Progress before the first call.
ZeroProgress ==
    [Message |-> <<"", 0>>, EncodedResumeInfo |-> <<>>, SectionsCompleted |-> 0,
     SectionsRemaining |-> 0, PercentComplete |-> 0]

\* EncodeResumeInfo of the sorted slice: the repos in order (the empty
\* sequence is the empty string).
RECURSIVE EncodeResumeInfo(_)
EncodeResumeInfo(slice) ==
    IF slice = {} THEN <<>>
    ELSE LET least == CHOOSE r \in slice : \A o \in slice : r <= o
         IN <<least>> \o EncodeResumeInfo(slice \ {least})

\* SetProgressComplete: what the call with these arguments sets. The
\* percentage is int64((float64(i) / float64(scope)) * 100), which is the
\* integer quotient for the counts of the model.
ProgressOf(i, scope, message, encodedResumeInfo) ==
    [Message |-> message, EncodedResumeInfo |-> encodedResumeInfo,
     SectionsCompleted |-> i, SectionsRemaining |-> scope,
     PercentComplete |-> IF i = 0 /\ scope = 0 THEN 100 ELSE (i * 100) \div scope]

\* The arguments of the call: of setProgressCompleteWithRepo for the job of
\* a repo (index i - 1), of the last statement of scanRepos for Main.
CallOf(who) ==
    IF who = Main
    THEN ProgressOf(m_n, m_n, <<"Completed Gitlab scan", 0>>, <<>>)
    ELSE ProgressOf(who - 1, m_n, <<"Repo", who>>, EncodeResumeInfo(m_resume))

RunningJobs == {i \in 1..m_n : m_job[i] \notin {"idle", "done", "skipped"}}

\* scanRepos, the loop: s.jobPool.Go starts the job of the next repo.
ScanReposGo ==
    /\ m_pc = "running"
    /\ m_next <= m_n
    /\ Cardinality(RunningJobs) < JobPoolLimit
    /\ m_job' = [m_job EXCEPT ![m_next] = "check"]
    /\ m_next' = m_next + 1
    /\ UNCHANGED <<m_n, m_ctx, m_rmut, m_resume, m_progress, m_w, m_calls, m_rd, m_pc>>
    /\ m_frame

\* The job: common.IsDone(ctx) skips the repo and returns nil.
JobIsDone ==
    \E i \in 1..m_n :
        /\ m_job[i] = "check"
        /\ m_job' = [m_job EXCEPT ![i] = IF m_ctx THEN "skipped" ELSE "resume"]
        /\ UNCHANGED <<m_n, m_ctx, m_next, m_rmut, m_resume, m_progress, m_w, m_calls,
                       m_rd, m_pc>>
        /\ m_frame

\* setProgressCompleteWithRepo: s.resumeInfoMutex.Lock(), the repo is added
\* to s.resumeInfoSlice, which is sorted.
setProgressCompleteWithRepo ==
    \E i \in 1..m_n :
        /\ m_job[i] = "resume"
        /\ m_rmut = {}
        /\ m_rmut' = {i}
        /\ m_resume' = m_resume \cup {i}
        /\ m_job' = [m_job EXCEPT ![i] = "set"]
        /\ UNCHANGED <<m_n, m_ctx, m_next, m_progress, m_w, m_calls, m_rd, m_pc>>
        /\ m_frame

\* SetProgressComplete: p.mut.Lock(), by a job inside
\* setProgressCompleteWithRepo or by scanRepos after s.jobPool.Wait().
SetProgressLock ==
    \E who \in 1..Main :
        /\ IF who = Main THEN m_pc = "final" ELSE m_job[who] = "set"
        /\ m_w.who = {}
        /\ m_w' = [who |-> {who}, args |-> CallOf(who), k |-> 0]
        /\ m_calls' = m_calls \cup {CallOf(who)}
        /\ UNCHANGED <<m_n, m_ctx, m_next, m_job, m_rmut, m_resume, m_progress, m_rd, m_pc>>
        /\ m_frame

\* SetProgressComplete: the next assignment to a field of p.
SetProgressAssign ==
    /\ m_w.who # {}
    /\ m_w.k < Len(ProgressFields)
    /\ m_progress' = [m_progress EXCEPT ![ProgressFields[m_w.k + 1]] =
                          m_w.args[ProgressFields[m_w.k + 1]]]
    /\ m_w' = [m_w EXCEPT !.k = m_w.k + 1]
    /\ UNCHANGED <<m_n, m_ctx, m_next, m_job, m_rmut, m_resume, m_calls, m_rd, m_pc>>
    /\ m_frame

\* SetProgressComplete returns: p.mut.Unlock(); setProgressCompleteWithRepo
\* unlocks s.resumeInfoMutex, scanRepos returns nil.
SetProgressUnlock ==
    /\ m_w.who # {}
    /\ m_w.k = Len(ProgressFields)
    /\ m_w' = [who |-> {}, args |-> ZeroProgress, k |-> 0]
    /\ IF m_w.who = {Main}
       THEN m_pc' = "returned" /\ UNCHANGED <<m_job, m_rmut>>
       ELSE /\ m_job' = [i \in 1..m_n |-> IF i \in m_w.who THEN "scan" ELSE m_job[i]]
            /\ m_rmut' = {}
            /\ UNCHANGED m_pc
    /\ UNCHANGED <<m_n, m_ctx, m_next, m_resume, m_progress, m_calls, m_rd>>
    /\ m_frame

\* The job: the repo is cloned and scanned; an error is added to scanErrs
\* and the job returns nil like after a scan. Nothing of it touches Progress.
JobScanRepo ==
    \E i \in 1..m_n :
        /\ m_job[i] = "scan"
        /\ m_job' = [m_job EXCEPT ![i] = "defer"]
        /\ UNCHANGED <<m_n, m_ctx, m_next, m_rmut, m_resume, m_progress, m_w, m_calls,
                       m_rd, m_pc>>
        /\ m_frame

\* The job's deferred function: RemoveRepoFromResumeInfo under
\* s.resumeInfoMutex.
RemoveRepoFromResumeInfo ==
    \E i \in 1..m_n :
        /\ m_job[i] = "defer"
        /\ m_rmut = {}
        /\ m_resume' = m_resume \ {i}
        /\ m_job' = [m_job EXCEPT ![i] = "done"]
        /\ UNCHANGED <<m_n, m_ctx, m_next, m_rmut, m_progress, m_w, m_calls, m_rd, m_pc>>
        /\ m_frame

\* scanRepos: s.jobPool.Wait() returns; the next statement is
\* s.SetProgressComplete(len(s.repos), len(s.repos), "Completed Gitlab scan", "").
ScanReposWait ==
    /\ m_pc = "running"
    /\ m_next > m_n
    /\ RunningJobs = {}
    /\ m_pc' = "final"
    /\ UNCHANGED <<m_n, m_ctx, m_next, m_job, m_rmut, m_resume, m_progress, m_w, m_calls,
                   m_rd>>
    /\ m_frame

\* The scan is cancelled.
CancelProgress ==
    /\ m_pc = "running"
    /\ ~m_ctx
    /\ m_ctx' = TRUE
    /\ UNCHANGED <<m_n, m_next, m_job, m_rmut, m_resume, m_progress, m_w, m_calls, m_rd,
                   m_pc>>
    /\ m_frame

\* GetProgress: p.mut.Lock(), the deferred Unlock, return p: the caller
\* holds the pointer to the Progress of the source and not the mutex.
GetProgress ==
    /\ m_rd.pc = "idle"
    /\ m_w.who = {}
    /\ m_rd' = [m_rd EXCEPT !.pc = "reading"]
    /\ UNCHANGED <<m_n, m_ctx, m_next, m_job, m_rmut, m_resume, m_progress, m_w, m_calls,
                   m_pc>>
    /\ m_frame

\* The caller of GetProgress reads a field through the pointer.
ReaderRead ==
    /\ m_rd.pc = "reading"
    /\ \E f \in m_rd.left :
          m_rd' = [pc |-> IF m_rd.left = {f} THEN "read" ELSE "reading",
                   left |-> m_rd.left \ {f},
                   seen |-> [m_rd.seen EXCEPT ![f] = m_progress[f]]]
    /\ UNCHANGED <<m_n, m_ctx, m_next, m_job, m_rmut, m_resume, m_progress, m_w, m_calls,
                   m_pc>>
    /\ m_frame

InitProgress ==
    /\ m_n \in 1..MaxRepos
    /\ m_ctx = FALSE
    /\ m_next = 1
    /\ m_job = [i \in 1..m_n |-> "idle"]
    /\ m_rmut = {}
    /\ m_resume = {}
    /\ m_progress = ZeroProgress
    /\ m_w = [who |-> {}, args |-> ZeroProgress, k |-> 0]
    /\ m_calls = {}
    /\ m_rd = [pc |-> "idle", left |-> {ProgressFields[k] : k \in DOMAIN ProgressFields},
               seen |-> ZeroProgress]
    /\ m_pc = "running"

IdleProgress ==
    /\ m_n = 0
    /\ m_ctx = FALSE
    /\ m_next = 1
    /\ m_job = <<>>
    /\ m_rmut = {}
    /\ m_resume = {}
    /\ m_progress = ZeroProgress
    /\ m_w = [who |-> {}, args |-> ZeroProgress, k |-> 0]
    /\ m_calls = {}
    /\ m_rd = [pc |-> "read", left |-> {}, seen |-> ZeroProgress]
    /\ m_pc = "returned"

NextProgress ==
    \/ ScanReposGo
    \/ JobIsDone
    \/ setProgressCompleteWithRepo
    \/ SetProgressLock
    \/ SetProgressAssign
    \/ SetProgressUnlock
    \/ JobScanRepo
    \/ RemoveRepoFromResumeInfo
    \/ ScanReposWait
    \/ CancelProgress
    \/ GetProgress
    \/ ReaderRead

----------------------------------------------------------------------------
(* s3: getBucketsToScan and scanBuckets resuming from a resume point       *)

\* Bucket names are 1..MaxBucketName in lexicographic order, 0 is the empty
\* string; MaxBuckets is the largest number of buckets of the source.
MaxBucketName == 3
MaxBuckets == 3

\* The buckets of the connection (or those ListBuckets returns without the
\* ignored ones), in any order and with repetitions.
BucketLists == UNION {[1..n -> 1..MaxBucketName] : n \in 0..MaxBuckets}

\* What progressTracker.GetResumePoint returns; CurrentBucket is 0 without
\* a resume point.
ResumePoints == [CurrentBucket : 0..MaxBucketName, StartAfter : {"", "key"}]

\* slices.Sort: insertion of the last element into the sorted rest.
RECURSIVE SortedInsert(_, _)
SortedInsert(x, b) ==
    IF x = <<>> THEN <<b>>
    ELSE IF b < Head(x) THEN <<b>> \o x
    ELSE <<Head(x)>> \o SortedInsert(Tail(x), b)

RECURSIVE SlicesSort(_)
SlicesSort(x) ==
    IF x = <<>> THEN <<>>
    ELSE SortedInsert(SlicesSort(SubSeq(x, 1, Len(x) - 1)), x[Len(x)])

\* getBucketsToScan: the buckets, sorted.
getBucketsToScan(buckets) == SlicesSort(buckets)

\* A faulty variant of BinarySearch: the position after the last element
\* that is not greater than the target.
RECURSIVE BinarySearch_after(_, _, _, _)
BinarySearch_after(x, target, i, j) ==
    IF i < j
    THEN LET h == (i + j) \div 2
         IN IF x[h + 1] <= target
            THEN BinarySearch_after(x, target, h + 1, j)
            ELSE BinarySearch_after(x, target, i, h)
    ELSE i

\* slices.BinarySearch(bucketsToScan, resumePoint.CurrentBucket), the index
\* it returns (from 0): the halving loop over [i, j).
RECURSIVE BinarySearch(_, _, _, _)
BinarySearch(x, target, i, j) ==
    IF i < j
    THEN LET h == (i + j) \div 2
         IN IF x[h + 1] < target
            THEN BinarySearch(x, target, h + 1, j)
            ELSE BinarySearch(x, target, i, h)
    ELSE i

\* The StartAfter of the ListObjectsV2Input of a bucket.
InputStartAfter(bucket, resumePoint) ==
    IF bucket = resumePoint.CurrentBucket /\ resumePoint.StartAfter # ""
    THEN resumePoint.StartAfter
    ELSE ""

\* visitRoles: s.getBucketsToScan(client), then the visitor calls scanBuckets.
VisitRoles ==
    /\ a_pc = "start"
    /\ a_buckets' = getBucketsToScan(a_conn)
    /\ a_pc' = "scanBuckets"
    /\ UNCHANGED <<a_conn, a_resume, a_i, a_ctx, a_log, a_ret>>
    /\ a_frame

\* scanBuckets up to the loop: the resume point, startIdx.
ScanBucketsResume ==
    /\ a_pc = "scanBuckets"
    /\ a_i' = BinarySearch(a_buckets, a_resume.CurrentBucket, 0, Len(a_buckets)) + 1
    /\ a_pc' = "loop"
    /\ UNCHANGED <<a_conn, a_resume, a_buckets, a_ctx, a_log, a_ret>>
    /\ a_frame

\* scanBuckets, one turn of the loop: return ctx.Err() when ctx is done;
\* continue without a regional client; else list the objects of the bucket
\* from input.StartAfter on. midway: ctx is cancelled while the pages are
\* processed, and the check of workerSignal returns ctx.Err().
ScanBucketsBucket ==
    /\ a_pc = "loop" /\ a_i <= Len(a_buckets)
    /\ IF a_ctx
       THEN /\ a_pc' = "returned" /\ a_ret' = "ctx.Err"
            /\ UNCHANGED <<a_i, a_log, a_ctx>>
       ELSE \E client \in {"ok", "err"}, midway \in BOOLEAN :
              /\ client = "err" => ~midway
              /\ a_log' = Append(a_log,
                     [idx |-> a_i,
                      what |-> IF client = "ok" THEN "listed" ELSE "noClient",
                      startAfter |-> InputStartAfter(a_buckets[a_i], a_resume)])
              /\ IF midway
                 THEN /\ a_ctx' = TRUE
                      /\ a_pc' = "returned" /\ a_ret' = "ctx.Err"
                      /\ UNCHANGED a_i
                 ELSE /\ a_i' = a_i + 1
                      /\ UNCHANGED <<a_pc, a_ret, a_ctx>>
    /\ UNCHANGED <<a_conn, a_resume, a_buckets>>
    /\ a_frame

\* scanBuckets after the loop: SetProgressComplete, return nil.
ScanBucketsDone ==
    /\ a_pc = "loop" /\ a_i > Len(a_buckets)
    /\ a_pc' = "returned" /\ a_ret' = "nil"
    /\ UNCHANGED <<a_conn, a_resume, a_buckets, a_i, a_ctx, a_log>>
    /\ a_frame

\* The scan is cancelled between two buckets.
ResumeCancel ==
    /\ a_pc = "loop" /\ ~a_ctx
    /\ a_ctx' = TRUE
    /\ UNCHANGED <<a_conn, a_resume, a_buckets, a_i, a_pc, a_log, a_ret>>
    /\ a_frame

InitResume ==
    /\ a_conn \in BucketLists
    /\ a_resume \in ResumePoints
    /\ a_buckets = <<>>
    /\ a_i = 1
    /\ a_ctx = FALSE
    /\ a_pc = "start"
    /\ a_log = <<>>
    /\ a_ret = "none"

IdleResume ==
    /\ a_conn = <<>>
    /\ a_resume = [CurrentBucket |-> 0, StartAfter |-> ""]
    /\ a_buckets = <<>>
    /\ a_i = 1
    /\ a_ctx = FALSE
    /\ a_pc = "returned"
    /\ a_log = <<>>
    /\ a_ret = "none"

NextResume ==
    \/ VisitRoles
    \/ ScanBucketsResume
    \/ ScanBucketsBucket
    \/ ScanBucketsDone
    \/ ResumeCancel

----------------------------------------------------------------------------
(* gitparse.RepoPath, its goroutines, and the loop of Git.ScanCommits      *)

\* The lines of the output of git log, the largest max depth and the
\* iterations of the empty loop that are told apart.
MaxLogLines == 4
MaxDepthOpt == 2
MaxSpins == 1

\* The kinds of line the parser tells apart that matter for a commit: the
\* commit line, the diff line, an added line and a line of the message.
LineKinds == {"commit", "diff", "plus", "message"}

\* The output of git log: empty, or lines after a first commit line. The
\* hash of a commit is its rank in the output.
LogOutputs ==
    {<<>>} \cup
    UNION {{<<"commit">> \o t : t \in [1..n -> LineKinds]} : n \in 0..(MaxLogLines - 1)}

\* scanOptions: MaxDepth (0: none) and BaseHash (0: none, else the hash of
\* a commit, of the output or not).
ScanOptionsSet == [MaxDepth : 0..MaxDepthOpt, BaseHash : 0..MaxLogLines]

NilCommit == <<>>
NilDiff == <<>>

\* The number of commit lines among the first n lines.
RECURSIVE CommitLines(_, _)
CommitLines(lines, n) ==
    IF n = 0 THEN 0
    ELSE CommitLines(lines, n - 1) + (IF lines[n] = "commit" THEN 1 ELSE 0)

\* currentCommit.Diffs = append(currentCommit.Diffs, *currentDiff)
AppendDiff(commit, diff) ==
    IF diff = NilDiff THEN commit
    ELSE <<[commit[1] EXCEPT !.Diffs = Append(@, diff[1])]>>

\* The first goroutine of RepoPath: for { } around a commented-out read of
\* stderr. It has no exit.
ErrReaderLoop ==
    /\ n_spins < MaxSpins
    /\ n_spins' = n_spins + 1
    /\ UNCHANGED <<n_lines, n_opts, n_pos, n_cur, n_diff, n_pc, n_closed, n_cons, n_depth,
                   n_reachedBase, n_recv, n_scanned>>
    /\ n_frame

\* The second goroutine, one line: outReader.ReadBytes and the switch. A
\* commit line after a commit goes on to send currentCommit.
ParserReadLine ==
    /\ n_pc = "read" /\ n_pos <= Len(n_lines)
    /\ CASE n_lines[n_pos] = "commit" ->
              IF n_cur = NilCommit
              THEN /\ n_cur' = <<[Hash |-> CommitLines(n_lines, n_pos), Diffs |-> <<>>]>>
                   /\ n_diff' = <<0>>
                   /\ n_pos' = n_pos + 1
                   /\ UNCHANGED n_pc
              ELSE /\ n_cur' = AppendDiff(n_cur, n_diff)
                   /\ n_pc' = "send"
                   /\ UNCHANGED <<n_diff, n_pos>>
         [] n_lines[n_pos] = "diff" ->
              /\ n_cur' = AppendDiff(n_cur, n_diff)
              /\ n_diff' = <<0>>
              /\ n_pos' = n_pos + 1
              /\ UNCHANGED n_pc
         [] n_lines[n_pos] = "plus" ->
              /\ n_diff' = <<n_diff[1] + 1>>
              /\ n_pos' = n_pos + 1
              /\ UNCHANGED <<n_cur, n_pc>>
         [] OTHER ->
              /\ n_pos' = n_pos + 1
              /\ UNCHANGED <<n_cur, n_diff, n_pc>>
    /\ UNCHANGED <<n_lines, n_opts, n_closed, n_cons, n_depth, n_reachedBase, n_recv,
                   n_scanned, n_spins>>
    /\ n_frame

\* A faulty variant of ParserBreak: the commit in hand at the end of the
\* output is dropped.
ParserBreak_dropLast ==
    /\ n_pc = "read" /\ n_pos > Len(n_lines)
    /\ n_pc' = "close"
    /\ UNCHANGED <<n_cur, n_diff>>
    /\ UNCHANGED <<n_lines, n_opts, n_pos, n_closed, n_cons, n_depth, n_reachedBase, n_recv,
                   n_scanned, n_spins>>
    /\ n_frame

\* The second goroutine after the break at the end of the output: the diff
\* in hand is added when it has content, currentCommit is sent if there is
\* one.
ParserBreak ==
    /\ n_pc = "read" /\ n_pos > Len(n_lines)
    /\ IF n_cur = NilCommit
       THEN n_pc' = "close" /\ UNCHANGED <<n_cur, n_diff>>
       ELSE /\ n_cur' = IF n_diff # NilDiff /\ n_diff[1] > 0
                        THEN AppendDiff(n_cur, n_diff) ELSE n_cur
            /\ n_pc' = "sendLast"
            /\ UNCHANGED n_diff
    /\ UNCHANGED <<n_lines, n_opts, n_pos, n_closed, n_cons, n_depth, n_reachedBase, n_recv,
                   n_scanned, n_spins>>
    /\ n_frame

\* A faulty variant of ScanCommitsTurn: the loop is left at the base commit
\* before its diffs are scanned.
ScanCommitsTurn_breakAtBase(hash, opts, depth, reachedBase) ==
    IF opts.MaxDepth > 0 /\ depth >= opts.MaxDepth
    THEN [break |-> TRUE, depth |-> depth, reachedBase |-> reachedBase]
    ELSE IF opts.BaseHash > 0 /\ hash = opts.BaseHash
    THEN [break |-> TRUE, depth |-> depth + 1, reachedBase |-> TRUE]
    ELSE [break |-> FALSE, depth |-> depth + 1, reachedBase |-> reachedBase]

\* ScanCommits, one turn of for commit := range commitChan up to the loop
\* over the diffs: the break at max depth, the break after the base commit.
ScanCommitsTurn(hash, opts, depth, reachedBase) ==
    IF opts.MaxDepth > 0 /\ depth >= opts.MaxDepth
    THEN [break |-> TRUE, depth |-> depth, reachedBase |-> reachedBase]
    ELSE IF reachedBase /\ hash # opts.BaseHash
    THEN [break |-> TRUE, depth |-> depth + 1, reachedBase |-> reachedBase]
    ELSE [break |-> FALSE, depth |-> depth + 1,
          reachedBase |-> reachedBase \/ (opts.BaseHash > 0 /\ hash = opts.BaseHash)]

\* commitChan <- *currentCommit meets the receive of ScanCommits' range loop
\* (the channel has no buffer). The parser goes on: after a commit line with
\* the new currentCommit and currentDiff, at the end with cmd.Wait and
\* close. ScanCommits runs its turn of the loop for the commit.
CommitChanSend ==
    /\ n_pc \in {"send", "sendLast"}
    /\ n_cons = "range"
    /\ n_recv' = Append(n_recv, n_cur[1])
    /\ LET turn == ScanCommitsTurn(n_cur[1].Hash, n_opts, n_depth, n_reachedBase)
       IN /\ n_depth' = turn.depth
          /\ n_reachedBase' = turn.reachedBase
          /\ n_cons' = IF turn.break THEN "returned" ELSE "range"
          /\ n_scanned' = IF turn.break THEN n_scanned
                          ELSE Append(n_scanned, n_cur[1].Hash)
    /\ IF n_pc = "send"
       THEN /\ n_cur' = <<[Hash |-> CommitLines(n_lines, n_pos), Diffs |-> <<>>]>>
            /\ n_diff' = <<0>>
            /\ n_pos' = n_pos + 1
            /\ n_pc' = "read"
       ELSE /\ n_pc' = "close"
            /\ UNCHANGED <<n_cur, n_diff, n_pos>>
    /\ UNCHANGED <<n_lines, n_opts, n_closed, n_spins>>
    /\ n_frame

\* The second goroutine: cmd.Wait(), close(commitChan), and its end.
ParserClose ==
    /\ n_pc = "close"
    /\ n_pc' = "done"
    /\ n_closed' = TRUE
    /\ UNCHANGED <<n_lines, n_opts, n_pos, n_cur, n_diff, n_cons, n_depth, n_reachedBase,
                   n_recv, n_scanned, n_spins>>
    /\ n_frame

\* ScanCommits: the range loop ends on the closed channel, return nil.
ScanCommitsReturn ==
    /\ n_cons = "range"
    /\ n_closed
    /\ n_cons' = "returned"
    /\ UNCHANGED <<n_lines, n_opts, n_pos, n_cur, n_diff, n_pc, n_closed, n_depth,
                   n_reachedBase, n_recv, n_scanned, n_spins>>
    /\ n_frame

\* A step of the second goroutine of RepoPath.
ParserStep == ParserReadLine \/ ParserBreak \/ CommitChanSend \/ ParserClose

InitLog ==
    /\ n_lines \in LogOutputs
    /\ n_opts \in ScanOptionsSet
    /\ n_pos = 1
    /\ n_cur = NilCommit
    /\ n_diff = NilDiff
    /\ n_pc = "read"
    /\ n_closed = FALSE
    /\ n_cons = "range"
    /\ n_depth = 0
    /\ n_reachedBase = FALSE
    /\ n_recv = <<>>
    /\ n_scanned = <<>>
    /\ n_spins = 0

IdleLog ==
    /\ n_lines = <<>>
    /\ n_opts = [MaxDepth |-> 0, BaseHash |-> 0]
    /\ n_pos = 1
    /\ n_cur = NilCommit
    /\ n_diff = NilDiff
    /\ n_pc = "done"
    /\ n_closed = TRUE
    /\ n_cons = "returned"
    /\ n_depth = 0
    /\ n_reachedBase = FALSE
    /\ n_recv = <<>>
    /\ n_scanned = <<>>
    /\ n_spins = 0

NextLog ==
    \/ ErrReaderLoop
    \/ ParserReadLine
    \/ ParserBreak
    \/ CommitChanSend
    \/ ParserClose
    \/ ScanCommitsReturn

----------------------------------------------------------------------------
(* The parts, idle *)

IdleX == IdleChannels /\ IdleSources /\ IdlePage /\ IdleRpm

\* The parts added last, idle.
IdleY == IdleConfig /\ IdleEngine /\ IdleHandleFile /\ IdleDataChan /\ IdleProgress
    /\ IdleResume
    /\ IdleLog

----------------------------------------------------------------------------
(* Specifications                                                          *)

InitSpecDetectors == InitDetectors /\ IdleGit /\ IdleBase64 /\ IdleWriter /\ IdleX /\ IdleY

SpecDetectors == InitSpecDetectors /\ [][NextDetectors]_vars

InitSpecGit == InitGit /\ IdleDetectors /\ IdleBase64 /\ IdleWriter /\ IdleX /\ IdleY

SpecGit == InitSpecGit /\ [][NextGit]_vars

InitSpecBase64 == InitBase64 /\ IdleDetectors /\ IdleGit /\ IdleWriter /\ IdleX /\ IdleY

SpecBase64 == InitSpecBase64 /\ [][NextBase64]_vars

InitSpecWriter == InitWriter /\ IdleDetectors /\ IdleGit /\ IdleBase64 /\ IdleX /\ IdleY

SpecWriter == InitSpecWriter /\ [][NextWriter]_vars

InitSpecShutdown == InitShutdown /\ IdleDetectors /\ IdleGit /\ IdleBase64 /\ IdleX /\ IdleY

SpecShutdown == InitSpecShutdown /\ [][NextShutdown]_vars

\* The first five parts, idle.
IdleCore == IdleDetectors /\ IdleGit /\ IdleBase64 /\ IdleWriter

InitSpecChannels == InitChannels /\ IdleCore /\ IdleSources /\ IdlePage /\ IdleRpm /\ IdleY

SpecChannels == InitSpecChannels /\ [][NextChannels]_vars

InitSpecSources == InitSources /\ IdleCore /\ IdleChannels /\ IdlePage /\ IdleRpm /\ IdleY

SpecSources == InitSpecSources /\ [][NextSources]_vars

InitSpecPage == InitPage /\ IdleCore /\ IdleChannels /\ IdleSources /\ IdleRpm /\ IdleY

SpecPage == InitSpecPage /\ [][NextPage]_vars

InitSpecRpm == InitRpm /\ IdleCore /\ IdleChannels /\ IdleSources /\ IdlePage /\ IdleY

SpecRpm == InitSpecRpm /\ [][NextRpm]_vars

InitSpecRun == InitRun /\ IdleDetectors /\ IdleGit /\ IdleBase64 /\ IdleX /\ IdleY

SpecRun == InitSpecRun /\ [][NextRun]_vars

InitSpecConfig ==
    InitConfig /\ IdleCore /\ IdleX /\ IdleEngine /\ IdleHandleFile /\ IdleDataChan
        /\ IdleProgress
        /\ IdleResume
        /\ IdleLog

SpecConfig == InitSpecConfig /\ [][NextConfig]_vars

InitSpecEngine ==
    InitEngine /\ IdleCore /\ IdleX /\ IdleConfig /\ IdleHandleFile /\ IdleDataChan
        /\ IdleProgress
        /\ IdleResume
        /\ IdleLog

SpecEngine == InitSpecEngine /\ [][NextEngine]_vars

InitSpecHandleFile ==
    InitHandleFile /\ IdleCore /\ IdleX /\ IdleConfig /\ IdleEngine /\ IdleDataChan
        /\ IdleProgress
        /\ IdleResume
        /\ IdleLog

SpecHandleFile == InitSpecHandleFile /\ [][NextHandleFile]_vars

InitSpecDataChan ==
    InitDataChan /\ IdleCore /\ IdleX /\ IdleConfig /\ IdleEngine /\ IdleHandleFile
        /\ IdleProgress
        /\ IdleResume
        /\ IdleLog

SpecDataChan == InitSpecDataChan /\ [][NextDataChan]_vars

InitSpecProgress ==
    InitProgress /\ IdleCore /\ IdleX /\ IdleConfig /\ IdleEngine /\ IdleHandleFile
        /\ IdleDataChan
        /\ IdleResume
        /\ IdleLog

SpecProgress == InitSpecProgress /\ [][NextProgress]_vars

InitSpecResume ==
    InitResume /\ IdleCore /\ IdleX
        /\ IdleConfig /\ IdleEngine
        /\ IdleHandleFile /\ IdleDataChan /\ IdleProgress
        /\ IdleLog

SpecResume == InitSpecResume /\ [][NextResume]_vars

InitSpecLog ==
    InitLog /\ IdleCore /\ IdleX
        /\ IdleConfig /\ IdleEngine
        /\ IdleHandleFile /\ IdleDataChan /\ IdleProgress /\ IdleResume

SpecLog == InitSpecLog /\ [][NextLog]_vars

----------------------------------------------------------------------------
(* Claims about the detectors                                              *)

\* C1: every Result returned by FromData that has Verified = true has no
\* verification error, whatever the verification call ended with.
C1_VerifiedHasNoError ==
    \A i \in DOMAIN d_results :
        d_results[i].verified => d_results[i].verificationError = "none"

\* C1 witness: one FromData call of a detector the claim names has returned a
\* verified result and a result carrying a verification error.
C1_Witness ==
    /\ d_state = "returned"
    /\ d_det \in {"twilio", "grafanaserviceaccount", "ftp"}
    /\ \E i, j \in DOMAIN d_results :
          /\ d_results[i].verified
          /\ d_results[j].verificationError # "none"

\* C2 (as claimed): a candidate whose verification call was answered with
\* HTTP 401 or 403 is returned with Verified = false and no verification error.
C2_RejectionIsDeterminate ==
    \A i \in DOMAIN d_log :
        (d_log[i].outcome.kind = "http" /\ d_log[i].outcome.code \in {401, 403})
            => /\ d_log[i].appended # {}
               /\ \A r \in d_log[i].appended :
                     ~r.verified /\ r.verificationError = "none"

\* The verification call ended without a determinate answer: an error of the
\* transport, or a status that is neither 2xx nor 401/403.
Indeterminate(out) ==
    \/ out.kind \in {"neterr", "timeout", "connecterr", "pingerr"}
    \/ out.kind = "http" /\ ~Is2xx(out.code) /\ out.code \notin {401, 403}

\* C3 (as claimed): a candidate whose verification call ended indeterminately
\* is still returned, with Verified = false and a verification error set.
C3_IndeterminateIsReported ==
    \A i \in DOMAIN d_log :
        Indeterminate(d_log[i].outcome)
            => /\ d_log[i].appended # {}
               /\ \A r \in d_log[i].appended :
                     ~r.verified /\ r.verificationError # "none"

\* C17 (as claimed): no outcome of the verification request makes FromData
\* panic or end the process; FromData runs on or has returned.
C17_VerificationFailureNeverCrashes ==
    d_state \in {"running", "returned"}

----------------------------------------------------------------------------
(* Claims about the git source                                             *)

\* C4 (as claimed): once a chunk has been sent on the channel, the bytes of
\* its Data stay what they were when it was sent.
C4_SentDataNeverModified ==
    \A i \in DOMAIN g_chan : DataOf(g_chan[i]) = g_chan[i].sent

----------------------------------------------------------------------------
(* Claims about the decoders                                               *)

----------------------------------------------------------------------------
(* Claims about the buffered file writer                                   *)

\* C6: while the bytes written to a writer are at most its threshold, no
\* temporary file has been created and the memory buffer holds all of them;
\* once they are more than the threshold, the file has been created.
C6_SpillsAboveThresholdOnly ==
    \A w \in w_active :
        ~w_hist.failed[w] =>
            /\ w_hist.total[w] <= w_T =>
                  /\ ~w_fs[w].created
                  /\ w_st[w].file = "nil"
                  /\ w_rd[w].state # "closed"
                        => BytesOf(w_arrays, w_st[w].buf) = w_hist.written[w]
            /\ w_hist.total[w] > w_T => w_fs[w].created /\ w_st[w].file # "nil"

\* C6 witness: one writer holds exactly threshold bytes and has no file,
\* another has been written threshold + 1 bytes and has its file.
C6_Witness ==
    \E w1, w2 \in w_active :
        /\ ~w_hist.failed[w1] /\ ~w_hist.failed[w2]
        /\ w_hist.total[w1] = w_T /\ ~w_fs[w1].created
        /\ w_hist.total[w2] = w_T + 1 /\ w_fs[w2].created

\* C7 (as claimed): what the reader returned by ReadCloser delivers after
\* successful Writes and Close is the written data, in the order written.
C7_ReaderDeliversWrittenBytes ==
    \A w \in w_active :
        (~w_hist.failed[w] /\ w_rd[w].state = "read")
            => w_rd[w].got = w_hist.written[w]

\* C8 (as claimed): a writer does not touch its buffer again after it has put
\* it into the pool, and the pool holds no buffer twice.
C8_NoUseAfterPut ==
    /\ ~w_hist.usedAfterPut
    /\ \A w \in Writers : w_pool[w] <= 1

\* C9: once the reader of a writer that spilled to a file has been closed,
\* the temporary file of that writer does not exist.
C9_ReaderCloseRemovesFile ==
    \A w \in w_active :
        (w_fs[w].created /\ w_rd[w].state = "closed" /\ w_rd[w].kind = "file")
            => ~w_fs[w].exists

\* C9 witness: the file reader of a writer that spilled has been read and
\* closed.
C9_Witness ==
    \E w \in w_active :
        /\ w_fs[w].created
        /\ w_rd[w].state = "closed" /\ w_rd[w].kind = "file"
        /\ w_rd[w].got # <<>>

----------------------------------------------------------------------------
(* Claims about shutdown                                                   *)

\* C10 (as claimed): when the scan was cancelled and the process has shut
\* down, no temporary file created by this process is left on disk.
C10_NoTempFileAfterShutdown ==
    (s_pc.cancelled /\ s_pc.signal = "exited")
        => \A w \in w_active : ~w_fs[w].exists

----------------------------------------------------------------------------
(* Claims about the producers of chunksChan                                *)

\* C11 (as claimed): once ctx is cancelled and chunksChan is read no more, a
\* producer that stands at a send of a chunk can still take a step (its send
\* is cancellable); otherwise it is blocked for good, the channel staying
\* full.
C11_SendIsCancellable ==
    \A p \in Producers :
        (c_ctx /\ c_reader = "stopped" /\ c_pc[p] = "send")
            => ENABLED ProducerStep(p)

----------------------------------------------------------------------------
(* Claims about the scan functions                                         *)

\* C12 (as claimed): a scan function that returns while ctx is cancelled
\* returns no error, and no unit is recorded as an error on account of the
\* cancellation.
C12_CancellationIsNoError ==
    (u_pc = "returned" /\ u_ctx) =>
        /\ u_ret # "ctx.Err"
        /\ \A k \in DOMAIN u_log :
              u_log[k].what = "error" => u_units[u_log[k].unit] \notin {"ok", "empty"}

\* C13 (as claimed): when the scan was not cancelled and the scan function
\* has returned, every unit was visited: a unit whose outcome is an error is
\* recorded as one, every other unit was scanned (or skipped as empty), and
\* the scan function did not return the unit's error.
C13_UnitErrorDoesNotAbort ==
    (u_pc = "returned" /\ ~u_ctx) =>
        /\ u_ret = "nil"
        /\ \A i \in 1..Len(u_units) :
              \E k \in DOMAIN u_log :
                  /\ u_log[k].unit = i
                  /\ u_log[k].what =
                        CASE u_units[i] = "ok" -> "scanned"
                          [] u_units[i] = "empty" -> "skipped"
                          [] OTHER -> "error"

----------------------------------------------------------------------------
(* Claims about pageChunker                                                *)

\* What pageChunker emits with concurrency 1: the jobs run one after the
\* other in the order of the page. nErr: state.errorCount before object i.
RECURSIVE SequentialEmitted(_, _, _)
SequentialEmitted(objs, i, nErr) ==
    IF i > Len(objs) THEN {}
    ELSE IF nErr > maxPrefixErrors THEN SequentialEmitted(objs, i + 1, nErr)
    ELSE IF objs[i] = "err" THEN SequentialEmitted(objs, i + 1, nErr + 1)
    ELSE {i} \cup SequentialEmitted(objs, i + 1, 0)

\* C14 (as claimed): when pageChunker has returned, the objects whose
\* content was emitted are those emitted with concurrency 1, whatever the
\* limit of the job pool and the interleaving of the jobs.
C14_EmittedSetIndependentOfConcurrency ==
    p_pc = "returned" => p_emitted = SequentialEmitted(p_objs, 1, 0)

----------------------------------------------------------------------------
(* Claims about the rpm handler                                            *)

\* C15 (as claimed): when the extraction panicked, the handler's output
\* ends with a processing-warning for it and holds no fatal error.
C15_PanicIsReportedAsWarning ==
    (r_pc = "closed" /\ r_err = "panic") =>
        /\ r_out # <<>>
        /\ r_out[Len(r_out)].kind = "warning"
        /\ \A k \in DOMAIN r_out : r_out[k].kind # "fatal"

\* C16 (as claimed): when the handler is done, a file of the payload that the
\* loop reached (never cancelled, the files before it read) and whose
\* processing failed has its processing-warning on the output, and the
\* extraction did not end at it: the loop went on to the next file.
C16_FileFailureDoesNotEndExtraction ==
    \A i \in 1..Len(r_files) :
        (r_pc = "closed" /\ r_open = "ok" /\ ~r_ctx
            /\ r_files[i] \in {"contentErr", "mimeErr"}
            /\ \A j \in 1..(i - 1) : r_files[j] \in {"ok", "contentErr"})
        => /\ \E k \in DOMAIN r_out : r_out[k] = DataOrErr("warning", i)
           /\ r_i > i

----------------------------------------------------------------------------
(* Claims about run: signals and exit codes                                *)

\* C18: once the signal goroutine has taken the signal the root context is
\* cancelled before anything else it does, and when it is the signal
\* goroutine that ended the process, at least gracePeriod seconds have
\* passed since the signal; the process ends earlier only through the main
\* goroutine, the scan having returned by itself.
C18_CancelThenGracePeriod ==
    /\ s_pc.signal \in {"cancelled", "cleaned", "exited"} => s_pc.cancelled
    /\ s_main.how = "signal" => (s_pc.cancelled /\ s_clock >= gracePeriod)
    /\ (s_main.pc = "exited" /\ s_pc.signal # "waiting" /\ s_clock < gracePeriod)
        => s_main.how \in {"returned", "fatal"}

\* C18, its case: the signal goroutine forced the exit after the grace
\* period, the scan not having returned.
C18_Witness ==
    /\ s_main = [pc |-> "exited", exit |-> 0, how |-> "signal"]
    /\ s_pc.cancelled
    /\ s_clock >= gracePeriod

\* C19 (as claimed): when the process has exited, its code is 1 if an
\* internal error ended it, otherwise 183 if findings are present and --fail
\* was given, and 0 in every other case.
C19_ExitCodes ==
    s_main.pc = "exited" =>
        s_main.exit = IF s_main.how = "fatal" THEN 1
                      ELSE IF s_eng.found /\ s_cfg.fail THEN 183
                      ELSE 0

\* C20 (as claimed): when the scan returned without an error, the process
\* exits with 183 exactly when --fail was given and at least one finding
\* passed the results filter and was emitted.
C20_FailNeedsEmittedFinding ==
    s_main.how = "returned" =>
        (s_main.exit = 183 <=> (s_cfg.fail /\ s_eng.emitted))

----------------------------------------------------------------------------
(* Claims about the configuration                                          *)

\* C21: when a base commit is given, the concurrency of the engine's
\* configuration, once built, is 1, and every source manager built from it
\* runs 1 source and 1 unit at a time, whatever --concurrency was.
C21_BaseCommitPinsConcurrency ==
    k_flags.sinceCommit # "" =>
        /\ k_pc = "conf" => k_engConf = 1
        /\ \A i \in DOMAIN k_mgr : k_mgr[i] = [sources |-> 1, units |-> 1]

\* C21, its case: a base commit with --concurrency above 1, and the source
\* managers of both scans of compareScans built.
C21_Witness ==
    /\ k_flags.sinceCommit # ""
    /\ k_given > 1
    /\ k_pc = "conf"
    /\ Len(k_mgr) = 2
    /\ k_mgr[2] = [sources |-> 1, units |-> 1]

----------------------------------------------------------------------------
(* Claims about the engine                                                 *)

\* The pairs of distinct detectors of the scanning test that have one type
\* and both produce the raw.
SameTypeSameRaw ==
    {t \in (DOMAIN TestDetectors(o_test)) \X (DOMAIN TestDetectors(o_test)) \X
            {"fake secret v1", "fake secret v2", "test", "stuff"} :
        /\ t[1] < t[2]
        /\ TestDetectors(o_test)[t[1]].type = TestDetectors(o_test)[t[2]].type
        /\ t[3] \in TestDetectors(o_test)[t[1]].raws
        /\ t[3] \in TestDetectors(o_test)[t[2]].raws}

----------------------------------------------------------------------------
(* Claims about HandleFile                                                 *)

\* C25 (as claimed): a call of HandleFile with a context that was cancelled
\* before the call never returns true.
C25_CancelledNeverSucceeds ==
    (h_in.cancelled /\ h_pc = "returned") => h_ret = "false"

\* C26 (as claimed): the channel HandleFile returned is closed once, after
\* the last item was sent on it, and until then the handler's goroutine
\* can go on towards the close, also when the reader of the channel has
\* stopped reading: every path ends with the channel closed.
C26_ChannelEventuallyClosed ==
    /\ f_hist.closes <= 1
    /\ f_pc = "closed" => (f_hist.closes = 1 /\ f_hist.sentAtClose = f_hist.sent)
    /\ (f_pc # "closed" /\ f_reader = "stopped") => ENABLED GoStep

----------------------------------------------------------------------------
(* More claims about the buffered file writer, the s3 source and progress  *)

\* C27 (as claimed): between the Write calls of a writer that is not yet
\* closed its data is in one place: once its temporary file exists its
\* memory buffer holds no data.
C27_DataInOnePlace ==
    \A w \in w_active :
        (w_st[w].life = "open" /\ w_st[w].file # "nil") => w_st[w].buf.len = 0

\* C28 (as claimed): the error count of a prefix is updated without lost
\* updates. On a page whose objects all fail in GetObject, every job that
\* was not skipped adds one to the count, and jobs are skipped only once the
\* count is above maxPrefixErrors: when pageChunker has returned the stored
\* count is the smaller of the number of objects and maxPrefixErrors + 1,
\* for every limit of the job pool and every interleaving of the jobs.
C28_ErrorCountWithoutLostUpdates ==
    (p_pc = "returned" /\ \A i \in DOMAIN p_objs : p_objs[i] = "err") =>
        p_errorCount = Min(Len(p_objs), maxPrefixErrors + 1)

\* A Progress with these fields reports the scan as complete.
ReportsComplete(p) ==
    /\ p.SectionsCompleted = p.SectionsRemaining
    /\ p.EncodedResumeInfo = <<>>

\* C29 (as claimed): a reader of the source's progress never observes a torn
\* update: the five fields it has read through the pointer GetProgress
\* returned are those set by one SetProgressComplete call (or those of the
\* Progress before the first call), while the jobs call SetProgressComplete.
C29_NoTornProgress ==
    m_rd.pc = "read" => m_rd.seen \in m_calls \cup {ZeroProgress}

\* C30 (as claimed): when scanRepos has returned and the job of some repo was
\* skipped because the scan was cancelled, the progress does not report the
\* scan as complete: the sections completed differ from the total or the
\* resume information is not empty.
C30_CompleteOnlyIfAllScanned ==
    (m_pc = "returned" /\ \E i \in 1..m_n : m_job[i] = "skipped") =>
        ~ReportsComplete(m_progress)

----------------------------------------------------------------------------
(* Claims about resuming the s3 scan and about the git log                 *)

\* C31: when a resume point exists and scanBuckets has returned nil, the
\* buckets it visited, each once and in order, are exactly those that do not
\* sort before the resume bucket, and the listing of a bucket starts after
\* the resume point's StartAfter when the bucket is the resume bucket and
\* from the beginning of the bucket when it is a later one.
C31_ResumeSkipsEarlierBuckets ==
    (a_pc = "returned" /\ a_ret = "nil" /\ a_resume.CurrentBucket # 0) =>
        /\ {a_log[k].idx : k \in DOMAIN a_log} =
               {i \in DOMAIN a_buckets : ~(a_buckets[i] < a_resume.CurrentBucket)}
        /\ \A k \in DOMAIN a_log :
              /\ k > 1 => a_log[k].idx = a_log[k - 1].idx + 1
              /\ a_log[k].startAfter =
                    IF a_buckets[a_log[k].idx] = a_resume.CurrentBucket
                    THEN a_resume.StartAfter ELSE ""

\* A scan resumed in the second of three buckets, after the key of the
\* resume point, has scanned the third bucket too.
C31_Witness ==
    /\ a_pc = "returned" /\ a_ret = "nil"
    /\ a_resume.StartAfter = "key"
    /\ Len(a_buckets) = MaxBuckets
    /\ a_buckets[1] < a_resume.CurrentBucket
    /\ a_buckets[2] = a_resume.CurrentBucket
    /\ a_buckets[3] > a_resume.CurrentBucket
    /\ Len(a_log) = 2
    /\ \A k \in DOMAIN a_log : a_log[k].what = "listed"

\* The number of added lines between the k-th commit line and the next one.
RECURSIVE AddedLines(_, _, _)
AddedLines(lines, k, n) ==
    IF n = 0 THEN 0
    ELSE AddedLines(lines, k, n - 1) +
         (IF lines[n] = "plus" /\ CommitLines(lines, n) = k THEN 1 ELSE 0)

RECURSIVE SumSeq(_)
SumSeq(q) == IF q = <<>> THEN 0 ELSE Head(q) + SumSeq(Tail(q))

\* The commits of the output of git log, in its order: the hash of each and
\* the number of its added lines.
LogCommits(lines) ==
    [k \in 1..CommitLines(lines, Len(lines)) |->
        [Hash |-> k, Added |-> AddedLines(lines, k, Len(lines))]]

\* The commits received from commitChan, in the same form.
Received ==
    [k \in DOMAIN n_recv |->
        [Hash |-> n_recv[k].Hash, Added |-> SumSeq(n_recv[k].Diffs)]]

C33_GoroutinesTerminate ==
    (n_pc # "done" /\ n_cons = "returned") => ENABLED ParserStep

\* The last commit ScanCommits has to scan when a base commit is set: the
\* base commit when it is among those of the output, else the last one.
LastToScan ==
    Min(n_opts.BaseHash, CommitLines(n_lines, Len(n_lines)))

\* C35: with a base commit set, the commits whose diffs ScanCommits scans
\* are the first commits of the log in its order, none of them after the
\* base commit; when ScanCommits has returned and no max depth was set,
\* they are all commits up to and including the base commit.
C35_StopsAfterBaseCommit ==
    n_opts.BaseHash > 0 =>
        /\ Len(n_scanned) <= LastToScan
        /\ \A k \in DOMAIN n_scanned : n_scanned[k] = k
        /\ (n_cons = "returned" /\ n_opts.MaxDepth = 0) => Len(n_scanned) = LastToScan

\* The second of three commits is the base commit: ScanCommits returned
\* after it scanned the first two and received the third.
C35_Witness ==
    /\ n_opts.BaseHash = 2 /\ n_opts.MaxDepth = 0
    /\ CommitLines(n_lines, Len(n_lines)) = 3
    /\ n_cons = "returned"
    /\ n_scanned = <<1, 2>>
    /\ Len(n_recv) = 3

----------------------------------------------------------------------------
(* More claims about the git source                                        *)

\* The bytes of data without the line ends.
WithoutNL(data) == SelectSeq(data, LAMBDA b : b # NL)

\* The lines of data, without their line ends.
RECURSIVE LinesOfData(_)
LinesOfData(data) ==
    IF data = <<>> THEN {}
    ELSE LET i == IndexNL(data)
         IN IF i < 0 THEN {data}
            ELSE {SubSeq(data, 1, i)} \cup LinesOfData(SubSeq(data, i + 2, Len(data)))

\* The Data of the chunks, as sent, one after the other.
RECURSIVE SentData(_)
SentData(chan) ==
    IF chan = <<>> THEN <<>> ELSE Head(chan).sent \o SentData(Tail(chan))

\* C34 (as claimed): when gitChunk has split a diff of more than ChunkSize +
\* PeekSize bytes, the Data of the chunks it sent, one after the other, are
\* the lines of the diff, each once and in order, and a chunk is longer than
\* ChunkSize only when it is one line of the diff.
C34_GitChunkLosesNoContent ==
    (g_pc = "done" /\ Len(g_diff) > ChunkSize + PeekSize) =>
        /\ SentData(g_chan) = WithoutNL(g_diff)
        /\ \A i \in DOMAIN g_chan :
              \/ Len(g_chan[i].sent) <= ChunkSize
              \/ g_chan[i].sent \in LinesOfData(g_diff)

====
